---- MODULE Spec2Model ----
(***************************************************************************)
(* guileen/codeact: the Agent task loop (Agent.run / processTask /         *)
(* continueTask), the ToolExecutor and the sandboxed code executors        *)
(* (runBashCode / runJSCode / runPythonCode).                              *)
(*                                                                         *)
(* Text model.  A JavaScript string is a sequence of fragments.  A         *)
(* fragment is a word (one token of plain text), a user_input tag with its *)
(* raw prompt, or a fenced code block with its language tag and code.      *)
(* s.includes(w) is "some word fragment of s is w"; the empty string is    *)
(* the empty sequence.  The Chinese literals of the source are written in  *)
(* pinyin, each introduced by a definition that quotes the literal.        *)
(***************************************************************************)
EXTENDS Integers, Sequences, FiniteSets, TLC

VARIABLES
  state,      \* Agent.state: currentTask (empty or one Task), completedTasks
  memory,     \* Agent.memory: sequence of Msg
  pc,         \* "idle": no run in flight; "llm": processTask awaits chat()
  ret,        \* value the last Agent.run resolved with
  nextId,     \* source of fresh uuidv4 values
  ops,        \* number of run/reset calls made so far
  llmCalls,   \* number of chat() calls made so far
  turns,      \* chat() calls made for the current Task
  last,       \* the latest turn: reply, tool calls, how each ran, results, verdict
  loop,       \* executeToolsClean: its calls, loop index, calls in flight, results
  now,        \* Date.now()
  disk,       \* temp directory: path -> owner of the content stored there
  calls,      \* in-flight and finished run*Code calls
  context,    \* ContextManager.instance.context (empty or one AgentContext)
  manager,    \* SandboxManager: the policy of its last initialize()
  prefs,      \* ContextManager.instance.prefs
  fsys,       \* the working directories in which forbidden_area exists on disk
  lastCtxOp,  \* the latest ContextManager call: its name and directory argument
  own,        \* per session: the directory and policy the session has set up
  exec,       \* per session: its code execution (runBashCode)
  px,         \* the latest text given to the parsers and what each returned
  la,         \* one LightAgent: its construction, its run in flight, its history
  swarm,      \* one LightSwarm: its agents map and its latest call
  registry    \* one ToolRegistry: its maps, its schema list, its latest call

agentVars == <<state, memory, pc, ret, nextId, ops, llmCalls, turns, last, loop>>
sandboxVars == <<now, disk, calls, context, manager>>
ctxVars == <<prefs, fsys, lastCtxOp, own, exec>>
lightVars == <<px, la, swarm, registry>>
vars == <<state, memory, pc, ret, nextId, ops, llmCalls, turns, last, loop,
          now, disk, calls, context, manager,
          prefs, fsys, lastCtxOp, own, exec,
          px, la, swarm, registry>>

(***************************************************************************)
(* Bounds                                                                  *)
(***************************************************************************)
\* longest text given to the parsers, in pieces
MaxPieces == 2
\* largest max_retry option passed to LightAgent.run
MaxRetry == 2
\* LLM calls followed within one LightAgent run
LightCap == MaxRetry + 1
\* LightAgent runs followed on one instance
MaxRuns == 2
\* registerTool calls followed on one ToolRegistry
MaxRegs == 4

\* the turn budget of the specification; Agent.processTask has no such
\* parameter, so any value stands for "the configured maximum"
MaxTurns == 1
\* chat() calls explored in one behaviour
LLMCap == MaxTurns + 1
\* run/reset calls explored in one behaviour
MaxOps == 2
\* run*Code calls explored in one behaviour
NCalls == 2
\* sessions that share the process
NSessions == 2
\* last value of Date.now() explored
MaxClock == 1

(***************************************************************************)
(* Text                                                                    *)
(***************************************************************************)
W(t) == [k |-> "w", lang |-> "", v |-> t]
UI(p) == [k |-> "ui", lang |-> "", v |-> p]
Block(l, c) == [k |-> "block", lang |-> l, v |-> c]

\* String.prototype.includes for a one-word needle
Includes(s, w) == \E i \in DOMAIN s : s[i].k = "w" /\ s[i].v = w

\* number of matches of a global regex that is an alternation of words
CountIn(s, ws) == Cardinality({i \in DOMAIN s : s[i].k = "w" /\ s[i].v \in ws})

RECURSIVE Concat(_)
\* Array.prototype.join: the lines of ss one after another
Concat(ss) == IF ss = <<>> THEN <<>> ELSE Head(ss) \o Concat(Tail(ss))

\* literals of tool-decorator.ts
Marker == "renwu-wancheng"          \* '任务完成' (also inside '**任务完成**')
KwThen == "ranhou"                  \* '然后'
KwNext == "jiezhe"                  \* '接着'
KwAgain == "zai"                    \* '再'
KwAnd == "bing"                     \* '并'
KwCreate == "chuangjian"            \* '创建'
KwRead == "duqu"                    \* '读取'
KwWrite == "xieru"                  \* '写入'
KwExec == "zhixing"                 \* '执行'
KwAnalyse == "fenxi"                \* '分析'
KwCheck == "jiancha"                \* '检查'
KwFile == "wenjian"                 \* '文件'
KwRun == "yunxing"                  \* '运行'
KwVerify == "yanzheng"              \* '验证'
KwTellMe == "gaosuwo"               \* '告诉我'
KwSummary == "zongjie"              \* '总结'
KwSuccess == "chenggong"            \* '成功'
NeedInput == <<W("xuyao-yonghu-shuru")>>   \* '需要用户输入'
ExecOk == <<W(KwExec), W(KwSuccess)>>      \* '执行成功'
ErrLabel == <<W("cuowu:")>>                \* '错误: '
LogLabel == <<W("rizhi:")>>                \* '\n日志: '
ActionWords == {KwCreate, KwRead, KwWrite, KwExec, KwAnalyse, KwCheck}
AnalysisWords == {"gongneng", "zuoyong", "daima", "zheshiyige", "zhegechengxu"}

\* String.prototype.trim on a raw user_input prompt
Trim(p) == IF p \in {"", " "} THEN <<>> ELSE <<W(p)>>

\* String.prototype.trim().toLowerCase() on the tag of a fenced block
NormTag(l) == CASE l = "Bash" -> "bash" [] l = " python" -> "python" [] OTHER -> l

\* description.toLowerCase(): the keywords are caseless, Latin words are folded
ToLowerCase(s) == [i \in DOMAIN s |-> [s[i] EXCEPT !.v = NormTag(@)]]

\* lastResult.output.length > 50
LongWords == {"long-report"}
LongerThan50(s) == \E i \in DOMAIN s : s[i].v \in LongWords

(***************************************************************************)
(* Sandbox results (sandbox.ts)                                            *)
(***************************************************************************)
CodeTypes == {"bash", "javascript", "python"}
UserInput == "user_input"

LangName(lang) == CASE lang = "bash" -> "Bash"
                    [] lang = "javascript" -> "JavaScript"
                    [] OTHER -> "Python"

\* `... execution failed with exit code ${code}`
ExitMsg(lang, code) == <<W(LangName(lang)), W("execution failed with exit code"), W(code)>>
\* '... execution timed out'
TimeoutMsg(lang) == <<W(LangName(lang)), W("execution timed out")>>
NoContextMsg == <<W("Context not initialized")>>
InitFailMsg == <<W("sandbox initialize failed")>>
WriteFailMsg == <<W("write failed")>>
WrapFailMsg == <<W("sandbox wrap failed")>>

\* logs.push(chunk.trim())
StdoutLine(chunk) == chunk
\* logs.push(`stderr: ${data.toString().trim()}`)
StderrLine(chunk) == <<W("stderr:")>> \o chunk

\* return { output, logs }
Returned(stdout, logs) == [hasOutput |-> TRUE, output |-> stdout, logs |-> logs]
\* catch (error) { logs.push(`Error: ${error.message}`); return { logs } }
Caught(logs, msg) ==
  [hasOutput |-> FALSE, output |-> <<>>, logs |-> Append(logs, <<W("Error:")>> \o msg)]

\* what one execution did: its stdout chunk, its stderr chunk, how it ended
Outcome(out, err, end) == [out |-> out, err |-> err, end |-> end]
OkFour == Outcome(<<W("4")>>, <<>>, "0")
OkMarker == Outcome(<<W(Marker)>>, <<>>, "0")
ExitOne == Outcome(<<>>, <<W("denied")>>, "1")
TimedOut == Outcome(<<>>, <<>>, "timeout")
OkReport == Outcome(<<W("daima")>>, <<>>, "0")       \* stdout holds '代码'
Outcomes == {OkFour, OkMarker, OkReport, ExitOne, TimedOut}
Failing(o) == o.end # "0"

\* the SandboxResult runCode resolves with when the execution went as o
RunCodeResult(lang, o) ==
  LET l1 == IF o.out = <<>> THEN <<>> ELSE <<StdoutLine(o.out)>>
      l2 == IF o.err = <<>> THEN l1 ELSE Append(l1, StderrLine(o.err))
  IN  CASE o.end = "0" -> Returned(o.out, l2)
        [] o.end = "timeout" -> Caught(l2, TimeoutMsg(lang))
        [] OTHER -> Caught(l2, ExitMsg(lang, o.end))

(***************************************************************************)
(* ToolExecutor (tool_executor.ts)                                         *)
(***************************************************************************)
createUserInputTool(id, prompt) ==
  [id |-> id, type |-> UserInput, input |-> prompt, language |-> ""]

createCodeTool(id, language, code) ==
  [id |-> id, type |-> language, input |-> code, language |-> language]

\* handleUserInput without the output field
handleUserInputNoOutput(toolCall) ==
  [toolCallId |-> toolCall.id, type |-> UserInput, success |-> TRUE,
   output |-> <<>>, error |-> <<>>,
   logs |-> << <<W("User input received:")>> \o toolCall.input >>]

handleUserInput(toolCall) ==
  [toolCallId |-> toolCall.id, type |-> UserInput, success |-> TRUE,
   output |-> toolCall.input, error |-> <<>>,
   logs |-> << <<W("User input received:")>> \o toolCall.input >>]

\* the ToolResult handleCodeExecution builds from what runCode resolved with
toToolResult(toolCall, executionResult) ==
  [toolCallId |-> toolCall.id, type |-> toolCall.type, success |-> TRUE,
   output |-> IF executionResult.output # <<>> THEN executionResult.output ELSE <<>>,
   error |-> <<>>, logs |-> executionResult.logs]

handleCodeExecution(toolCall, o) ==
  LET language == IF toolCall.language # "" THEN toolCall.language ELSE toolCall.type
      executionResult == RunCodeResult(language, o)
  IN  toToolResult(toolCall, executionResult)

\* execute that hands every call, user_input too, to the code executor
executeViaSandbox(toolCall, o) ==
  IF toolCall.type \in CodeTypes \cup {UserInput}
    THEN handleCodeExecution(toolCall, o)
    ELSE [toolCallId |-> toolCall.id, type |-> toolCall.type, success |-> FALSE,
          output |-> <<>>, error |-> <<W("Unsupported tool type:"), W(toolCall.type)>>,
          logs |-> <<>>]

execute(toolCall, o) ==
  CASE toolCall.type = UserInput -> handleUserInput(toolCall)
    [] toolCall.type \in CodeTypes -> handleCodeExecution(toolCall, o)
    [] OTHER -> [toolCallId |-> toolCall.id, type |-> toolCall.type, success |-> FALSE,
                 output |-> <<>>, error |-> <<W("Unsupported tool type:"), W(toolCall.type)>>,
                 logs |-> <<>>]

(***************************************************************************)
(* Agent (agent.ts)                                                        *)
(***************************************************************************)
Pending == "pending"
InProgress == "in_progress"
WaitingForInput == "waiting_for_input"
Completed == "completed"
Failed == "failed"
TaskStatus == {Pending, InProgress, WaitingForInput, Completed, Failed}

Msg(role, content) == [role |-> role, content |-> content]

parseToolCalls(llmResponse, id0) ==
  LET inputs == SelectSeq(llmResponse, LAMBDA f : f.k = "ui" /\ f.v # "")
      blocks == SelectSeq(llmResponse,
                          LAMBDA f : f.k = "block" /\ NormTag(f.lang) \in CodeTypes)
  IN  [i \in 1..Len(inputs) |-> createUserInputTool(id0 + i, Trim(inputs[i].v))]
      \o [i \in 1..Len(blocks) |->
            createCodeTool(id0 + Len(inputs) + i, NormTag(blocks[i].lang), <<W(blocks[i].v)>>)]

\* the loop of ToolExecutor.executeBatch: it stops after a user_input call
executeToolsStopAtInput(toolCalls, outs) ==
  LET stop == IF \E i \in DOMAIN toolCalls : toolCalls[i].type = UserInput
                THEN CHOOSE i \in DOMAIN toolCalls :
                       /\ toolCalls[i].type = UserInput
                       /\ \A j \in 1..(i - 1) : toolCalls[j].type # UserInput
                ELSE Len(toolCalls)
  IN  [i \in 1..stop |-> execute(toolCalls[i], outs[i])]

\* one result per call, in call order; outs[i] is how call i ran
executeToolsClean(toolCalls, outs) ==
  [i \in 1..Len(toolCalls) |-> execute(toolCalls[i], outs[i])]

formatToolResult(result) ==
  <<W(result.type)>>
  \o (IF result.success
        THEN (IF result.output # <<>> THEN result.output ELSE ExecOk)
        ELSE ErrLabel \o result.error)
  \o (IF Len(result.logs) > 0 THEN LogLabel \o Concat(result.logs) ELSE <<>>)

formatToolResults(results) ==
  Concat([i \in 1..Len(results) |-> formatToolResult(results[i])])

isMultiStepTask(taskDescription) ==
  \/ Includes(taskDescription, KwThen)
  \/ Includes(taskDescription, KwNext)
  \/ Includes(taskDescription, KwAgain)
  \/ \E i \in 1..(Len(taskDescription) - 1) :
       taskDescription[i].v = "," /\ taskDescription[i + 1].v = KwThen
  \/ Includes(taskDescription, KwAnd)
  \/ CountIn(taskDescription, ActionWords) > 1

shouldTaskComplete(task, results) ==
  LET taskDescription == ToLowerCase(task.description)
      n == Len(results)
  IN  IF isMultiStepTask(taskDescription) THEN FALSE
      ELSE IF Includes(taskDescription, KwCreate) /\ Includes(taskDescription, KwFile)
        THEN \E i \in 1..n :
               /\ results[i].success
               /\ \/ Includes(results[i].output, KwSuccess)
                  \/ Includes(results[i].output, "created")
                  \/ Includes(results[i].output, "written")
                  \/ \E j \in 1..Len(results[i].logs) : Includes(results[i].logs[j], KwSuccess)
      ELSE IF Includes(taskDescription, KwExec) \/ Includes(taskDescription, KwRun)
        THEN \E i \in 1..n : results[i].success
      ELSE IF Includes(taskDescription, KwCheck) \/ Includes(taskDescription, KwVerify)
        THEN \E i \in 1..n : results[i].success
      ELSE /\ n > 0
           /\ \A i \in 1..n : results[i].success
           /\ task.currentStep >= 1

\* this.memory[this.memory.length - 1]?.content?.includes('任务完成')
hasCompletionFlag(mem) == Len(mem) > 0 /\ Includes(mem[Len(mem)].content, Marker)

determineTaskCompletion(task, results, mem) ==
  LET taskDescription == ToLowerCase(task.description)
      n == Len(results)
  IN  IF \E i \in 1..n : ~results[i].success THEN FALSE
      ELSE IF \E i \in 1..Len(task.toolCalls) : task.toolCalls[i].type = UserInput THEN FALSE
      ELSE IF hasCompletionFlag(mem) THEN TRUE
      ELSE IF \/ Includes(taskDescription, KwAnalyse)
              \/ Includes(taskDescription, KwTellMe)
              \/ Includes(taskDescription, KwSummary)
        THEN /\ n > 0
             /\ results[n].output # <<>>
             /\ \/ LongerThan50(results[n].output)
                \/ \E w \in AnalysisWords : Includes(results[n].output, w)
      ELSE IF isMultiStepTask(taskDescription) THEN FALSE
      ELSE shouldTaskComplete(task, results)

isTaskComplete(task, results, mem) ==
  IF \E i \in 1..Len(results) : ~results[i].success THEN FALSE
  ELSE IF \E i \in 1..Len(task.toolCalls) : task.toolCalls[i].type = UserInput THEN FALSE
  ELSE determineTaskCompletion(task, results, mem)

(***************************************************************************)
(* chat (llm.ts)                                                           *)
(***************************************************************************)
LLMError == "LLM-cuowu:"            \* 'LLM错误: '
\* `LLM error ${res.status}: ${text}` thrown for a response that is not ok
HttpErrorMsg(status) == <<W("LLM error"), W(status)>>
\* the message of the error fetch() rejects with
FetchErrorMsg == <<W("fetch failed")>>

\* chat(messages, false): the content of the completion, and for a call that
\* failed the string `LLM错误: ${error.message}`; it never rejects
chat(res) == IF res.ok THEN res.content ELSE <<W(LLMError)>> \o res.error

\* inputs: user prompts and model replies
PlainPrompt == <<W("hello")>>
RunPrompt == <<W(KwRun), W("x")>>
MultiPrompt == <<W(KwCreate), W(KwFile), W(KwThen), W(KwRun)>>
AnalysePrompt == <<W(KwAnalyse), W("main.js"), W(KwThen), W(KwWrite), W("README")>>
Prompts == {PlainPrompt, RunPrompt, MultiPrompt, AnalysePrompt}
\* what the user answers when a halted Task is resumed
Answers == {<<W("yes")>>}

Replies ==
  { <<W("answer")>>,
    <<Block("bash", "ls")>>,
    <<Block("Bash", "ls"), W(Marker)>>,
    <<UI("q")>>,
    <<UI(" ")>>,
    <<UI("q"), UI("r")>>,
    <<Block("python", "p"), UI("q")>>,
    <<Block("javascript", "j"), Block("bash", "ls")>> }

\* what the LLM endpoint does with one request
Completion(content) == [ok |-> TRUE, content |-> content, error |-> <<>>]
Failure(error) == [ok |-> FALSE, content |-> <<>>, error |-> error]
ChatOutcomes ==
  {Completion(r) : r \in Replies} \cup {Failure(FetchErrorMsg), Failure(HttpErrorMsg("500"))}

NotRun == Outcome(<<>>, <<>>, "none")
\* the runCode outcomes a tool call is run with: every outcome for a bash call,
\* one success and one failure for a script call, none for a user_input call
OutcomesFor(toolCall) ==
  IF toolCall.type = UserInput THEN {NotRun}
  ELSE IF toolCall.type = "bash" THEN Outcomes
  ELSE {OkFour, ExitOne}

NoReturn == [text |-> <<>>, requiresInput |-> FALSE, inputPrompt |-> <<>>]
NoTurn == [reply |-> <<>>, toolCalls |-> <<>>, outs |-> <<>>, results |-> <<>>,
           verdict |-> "none", task |-> 0]
NewState == [currentTask |-> <<>>, completedTasks |-> <<>>]

NoLoop == [pc |-> "idle", toolCalls |-> <<>>, i |-> 0, inflight |-> {}, results |-> <<>>]

\* executeToolsClean that starts every call before awaiting any
beginAll(toolCalls) ==
  [pc |-> "await", toolCalls |-> toolCalls, i |-> 1,
   inflight |-> 1..Len(toolCalls), results |-> <<>>]

\* executeToolsClean from its entry to `await this.toolExecutor.execute(toolCall)`
\* of the first pass through the loop
begin(toolCalls) ==
  [pc |-> "await", toolCalls |-> toolCalls, i |-> 1, inflight |-> {1}, results |-> <<>>]

AgentInit ==
  /\ state = NewState
  /\ memory = <<>>
  /\ pc = "idle"
  /\ ret = NoReturn
  /\ nextId = 0
  /\ ops = 0
  /\ llmCalls = 0
  /\ turns = 0
  /\ last = NoTurn
  /\ loop = NoLoop

\* continueTask without the status update
continueTaskStillWaiting(userInput, mem) ==
  LET userInputTool == createUserInputTool(nextId + 1, userInput)
      userInputResult == execute(userInputTool, NotRun)
      task == state.currentTask[1]
  IN  /\ state' = [state EXCEPT !.currentTask =
                     << [task EXCEPT !.toolCalls = Append(@, userInputTool),
                                     !.results = Append(@, userInputResult)] >>]
      /\ memory' = mem \o << Msg("user", userInput),
                             Msg("tool", formatToolResults(<<userInputResult>>)) >>
      /\ nextId' = nextId + 1
      /\ UNCHANGED turns

\* continueTask that puts the Task back to Pending
continueTaskAsPending(userInput, mem) ==
  LET userInputTool == createUserInputTool(nextId + 1, userInput)
      userInputResult == execute(userInputTool, NotRun)
      task == state.currentTask[1]
  IN  /\ state' = [state EXCEPT !.currentTask =
                     << [task EXCEPT !.status = Pending,
                                     !.toolCalls = Append(@, userInputTool),
                                     !.results = Append(@, userInputResult)] >>]
      /\ memory' = mem \o << Msg("user", userInput),
                             Msg("tool", formatToolResults(<<userInputResult>>)) >>
      /\ nextId' = nextId + 1
      /\ UNCHANGED turns

\* a Task marked Completed that stays the current Task
completeTaskInPlace(task) ==
  [state EXCEPT !.currentTask = << [task EXCEPT !.status = Completed] >>]

\* task.status = COMPLETED; completedTasks.push(task); currentTask = undefined
completeTask(task) ==
  [currentTask |-> <<>>,
   completedTasks |-> Append(state.completedTasks, [task EXCEPT !.status = Completed])]

\* continueTask up to its call of processTask
continueTask(userInput, mem) ==
  LET userInputTool == createUserInputTool(nextId + 1, userInput)
      userInputResult == execute(userInputTool, NotRun)
      task == state.currentTask[1]
  IN  /\ state' = [state EXCEPT !.currentTask =
                     << [task EXCEPT !.status = InProgress,
                                     !.toolCalls = Append(@, userInputTool),
                                     !.results = Append(@, userInputResult)] >>]
      /\ memory' = mem \o << Msg("user", userInput),
                             Msg("tool", formatToolResults(<<userInputResult>>)) >>
      /\ nextId' = nextId + 1
      /\ UNCHANGED turns

\* Agent.run up to the first chat() call of processTask
Run(userPrompt) ==
  /\ pc = "idle"
  /\ ops < MaxOps
  /\ ops' = ops + 1
  /\ LET mem == Append(memory, Msg("user", userPrompt))
     IN  IF state.currentTask # <<>> /\ state.currentTask[1].status # Completed
           THEN continueTask(userPrompt, mem)
           ELSE /\ state' = [state EXCEPT !.currentTask =
                               << [id |-> nextId + 1, description |-> userPrompt,
                                   status |-> InProgress, toolCalls |-> <<>>,
                                   results |-> <<>>, currentStep |-> 0] >>]
                /\ memory' = mem
                /\ nextId' = nextId + 1
                /\ turns' = 0
  /\ pc' = "llm"
  /\ UNCHANGED <<ret, llmCalls, last, loop>>
  /\ UNCHANGED <<sandboxVars, ctxVars, lightVars>>

\* processTask from the resolution of chat() to its return or its next chat() call
Turn(llmResponse) ==
  /\ pc = "llm"
  /\ llmCalls < LLMCap
  /\ llmCalls' = llmCalls + 1
  /\ turns' = turns + 1
  /\ LET task == state.currentTask[1]
         toolCalls == parseToolCalls(llmResponse, nextId)
     IN  /\ nextId' = nextId + Len(toolCalls)
         /\ IF Len(toolCalls) = 0
              THEN /\ memory' = Append(memory, Msg("assistant", llmResponse))
                   /\ state' = completeTask(task)
                   /\ ret' = [text |-> llmResponse, requiresInput |-> FALSE,
                              inputPrompt |-> <<>>]
                   /\ pc' = "idle"
                   /\ last' = [reply |-> llmResponse, toolCalls |-> <<>>, outs |-> <<>>,
                               results |-> <<>>, verdict |-> "no_tools", task |-> task.id]
              ELSE \E outs \in [1..Len(toolCalls) -> Outcomes \cup {NotRun}] :
                     /\ \A i \in 1..Len(toolCalls) : outs[i] \in OutcomesFor(toolCalls[i])
                     /\ LET results == executeToolsClean(toolCalls, outs)
                            inputResults == SelectSeq(results, LAMBDA r : r.type = UserInput)
                            pushed == [task EXCEPT !.toolCalls = @ \o toolCalls,
                                                   !.results = @ \o results]
                            mem == Append(memory, Msg("tool", formatToolResults(results)))
                            stepped == [pushed EXCEPT !.currentStep = @ + Len(toolCalls)]
                        IN  /\ IF Len(inputResults) > 0 /\ inputResults[1].success
                                 THEN /\ memory' = mem
                                      /\ state' = [state EXCEPT !.currentTask =
                                                     << [pushed EXCEPT !.status = WaitingForInput] >>]
                                      /\ ret' = [text |-> IF inputResults[1].output # <<>>
                                                            THEN inputResults[1].output
                                                            ELSE NeedInput,
                                                 requiresInput |-> TRUE,
                                                 inputPrompt |-> inputResults[1].output]
                                      /\ pc' = "idle"
                                      /\ last' = [reply |-> llmResponse, toolCalls |-> toolCalls,
                                                  outs |-> outs, results |-> results,
                                                  verdict |-> "waiting", task |-> task.id]
                                 ELSE IF isTaskComplete(stepped, results, mem)
                                 THEN /\ state' = completeTask(stepped)
                                      /\ memory' = Append(mem, Msg("assistant",
                                                                   formatToolResults(results)))
                                      /\ ret' = [text |-> formatToolResults(results),
                                                 requiresInput |-> FALSE, inputPrompt |-> <<>>]
                                      /\ pc' = "idle"
                                      /\ last' = [reply |-> llmResponse, toolCalls |-> toolCalls,
                                                  outs |-> outs, results |-> results,
                                                  verdict |-> "complete", task |-> task.id]
                                 ELSE /\ memory' = mem
                                      /\ state' = [state EXCEPT !.currentTask = <<stepped>>]
                                      /\ UNCHANGED ret
                                      /\ pc' = "llm"
                                      /\ last' = [reply |-> llmResponse, toolCalls |-> toolCalls,
                                                  outs |-> outs, results |-> results,
                                                  verdict |-> "continue", task |-> task.id]
  /\ UNCHANGED <<ops, loop>>
  /\ UNCHANGED <<sandboxVars, ctxVars, lightVars>>

\* executeToolsClean is entered with the parsed calls of a reply
ExecBegin(toolCalls) ==
  /\ loop.pc \in {"idle", "done"}
  /\ Len(toolCalls) > 0
  /\ loop' = begin(toolCalls)
  /\ UNCHANGED <<state, memory, pc, ret, nextId, ops, llmCalls, turns, last>>
  /\ UNCHANGED <<sandboxVars, ctxVars, lightVars>>

\* execute(toolCall) resolves: results.push(result), then the 500 ms pause
ToolResolved(o) ==
  /\ loop.pc = "await"
  /\ loop.i \in loop.inflight
  /\ o \in OutcomesFor(loop.toolCalls[loop.i])
  /\ loop' = [loop EXCEPT !.results = Append(@, execute(loop.toolCalls[loop.i], o)),
                           !.inflight = @ \ {loop.i},
                           !.pc = "pause"]
  /\ UNCHANGED <<state, memory, pc, ret, nextId, ops, llmCalls, turns, last>>
  /\ UNCHANGED <<sandboxVars, ctxVars, lightVars>>

\* the pause ends: the next pass of the loop starts its call, or the loop is
\* left and the results are returned
PauseDone ==
  /\ loop.pc = "pause"
  /\ loop' = IF loop.i < Len(loop.toolCalls)
                THEN [loop EXCEPT !.i = @ + 1, !.inflight = @ \cup {loop.i + 1},
                                  !.pc = "await"]
                ELSE [loop EXCEPT !.pc = "done"]
  /\ UNCHANGED <<state, memory, pc, ret, nextId, ops, llmCalls, turns, last>>
  /\ UNCHANGED <<sandboxVars, ctxVars, lightVars>>

\* Agent.reset
Reset ==
  /\ pc = "idle"
  /\ ops < MaxOps
  /\ ops' = ops + 1
  /\ state' = NewState
  /\ memory' = <<>>
  /\ turns' = 0
  /\ UNCHANGED <<pc, ret, nextId, llmCalls, last, loop>>
  /\ UNCHANGED <<sandboxVars, ctxVars, lightVars>>

(***************************************************************************)
(* Sandboxed execution (sandbox.ts, context.ts)                            *)
(***************************************************************************)
CallIds == 1..NCalls
Dirs == {"/w1", "/w2"}
NoPath == <<>>

\* path.join(tmpdir(), `script_${Date.now()}.js`) / `.py`
tempScriptPath(lang, t) == IF lang = "bash" THEN NoPath
                           ELSE <<t, IF lang = "javascript" THEN ".js" ELSE ".py">>

Exists(d, p) == \E f \in d : f.path = p
\* fs.writeFileSync(path, code): the file now holds the code of call c
WriteFile(d, p, c) == {f \in d : f.path # p} \cup {[path |-> p, owner |-> c]}
\* fs.unlinkSync(path)
Unlink(d, p) == {f \in d : f.path # p}
OwnerAt(d, p) == IF Exists(d, p) THEN (CHOOSE f \in d : f.path = p).owner ELSE 0

NewCall ==
  [lang |-> "", pc |-> "new", path |-> NoPath, ctx |-> <<>>, initWith |-> <<>>,
   cmd |-> <<>>, wrapped |-> <<>>, spawned |-> <<>>, ran |-> 0,
   proc |-> "none", timer |-> "none", settled |-> "pending", emitted |-> "none",
   stdout |-> <<>>, logs |-> <<>>, result |-> <<>>, first |-> <<>>,
   failedAt |-> "none"]

\* a catch block that throws the error on
CatchBlockRethrow(call, msg, stage) ==
  [call EXCEPT !.result = <<>>, !.pc = "done", !.failedAt = stage]

\* the catch block: the error line is logged and { logs } is returned
CatchBlock(call, msg, stage) ==
  [call EXCEPT !.logs = Append(@, <<W("Error:")>> \o msg),
               !.result = <<Caught(call.logs, msg)>>,
               !.pc = "done",
               !.failedAt = stage]

\* resolve(stdout.trim()) of the execution promise, then return { output, logs }
resolve(call) ==
  IF call.settled = "pending"
    THEN [call EXCEPT !.settled = "resolved",
                      !.result = <<Returned(call.stdout, call.logs)>>,
                      !.pc = "done"]
    ELSE call

\* reject that runs the catch block again on a settled promise
rejectSettled(call, msg, stage) ==
  CatchBlock([call EXCEPT !.settled = "rejected"], msg, stage)

\* reject(new Error(msg)) of the execution promise, then the catch block
reject(call, msg, stage) ==
  IF call.settled = "pending"
    THEN CatchBlock([call EXCEPT !.settled = "rejected"], msg, stage)
    ELSE call

\* cleanup on the success path only
CleanupOnSuccess(call, d) ==
  IF call.path # NoPath /\ call.settled = "resolved" THEN Unlink(d, call.path) ELSE d

\* the finally block of runJSCode / runPythonCode; runBashCode has none
Cleanup(call, d) == IF call.path # NoPath THEN Unlink(d, call.path) ELSE d

\* the disk after call c moved from before to after
DiskAfter(before, after, d) ==
  IF before.pc # "done" /\ after.pc = "done" THEN Cleanup(after, d) ELSE d

(***************************************************************************)
(* Policies and the ContextManager (config.ts, context.ts)                 *)
(***************************************************************************)
Modes == {"strict", "moderate", "inquire"}
TmpDir == "/tmp"                                   \* tmpdir()
DefaultWritePaths == {"/dev/stdout"}               \* getDefaultWritePaths()
SecureDenyRead ==
  {"/etc/shadow", "/etc/sudoers", "~/.ssh/id_rsa*", "~/.aws/credentials", "~/.kube/config"}
SecureDenyWrite ==
  {"/etc", "/usr/bin", "/bin", "/sbin", "/System", "/boot", "/proc", "/sys",
   "~/.ssh", "~/.aws", "~/.kube"}
DevCachePaths == {"~/Downloads", "~/tmp", "~/.npm", "~/.yarn", "~/.cache"}

\* createSandboxConfig that leaves the developer caches out in inquire mode too
createSandboxConfigModerateOnly(workDir, mode, options) ==
  [allowWrite |-> {TmpDir, workDir} \cup DefaultWritePaths
                    \cup (IF mode = "moderate" THEN DevCachePaths ELSE {})
                    \cup options.extraAllowWrite,
   denyRead |-> SecureDenyRead \cup (IF mode = "strict" THEN {"/etc/passwd"} ELSE {})
                  \cup options.extraDenyRead,
   denyWrite |-> SecureDenyWrite \cup options.extraDenyWrite]

\* createSandboxConfig in which a caller's deny lists replace the built-in ones
createSandboxConfigOverriding(workDir, mode, options) ==
  [allowWrite |-> {TmpDir, workDir} \cup DefaultWritePaths
                    \cup (IF mode # "strict" THEN DevCachePaths ELSE {})
                    \cup options.extraAllowWrite,
   denyRead |-> IF options.extraDenyRead # {} THEN options.extraDenyRead
                ELSE SecureDenyRead \cup (IF mode = "strict" THEN {"/etc/passwd"} ELSE {}),
   denyWrite |-> IF options.extraDenyWrite # {} THEN options.extraDenyWrite
                 ELSE SecureDenyWrite]

\* the filesystem part of the SandboxRuntimeConfig; the arrays are read as sets
createSandboxConfig(workDir, mode, options) ==
  [allowWrite |-> {TmpDir, workDir} \cup DefaultWritePaths
                    \cup (IF mode # "strict" THEN DevCachePaths ELSE {})
                    \cup options.extraAllowWrite,
   denyRead |-> SecureDenyRead \cup (IF mode = "strict" THEN {"/etc/passwd"} ELSE {})
                  \cup options.extraDenyRead,
   denyWrite |-> SecureDenyWrite \cup options.extraDenyWrite]

\* an absent extra* list counts as an empty one
DEFAULT_PREFS ==
  [securityMode |-> "moderate", extraAllowWrite |-> {}, extraDenyRead |-> {},
   extraDenyWrite |-> {}]

\* a Partial<UserPreferences>: each field is absent (<<>>) or present (<<v>>)
NoPatch ==
  [securityMode |-> <<>>, extraAllowWrite |-> <<>>, extraDenyRead |-> <<>>,
   extraDenyWrite |-> <<>>]
\* { ...old, ...patch }
Spread(old, patch) ==
  [f \in DOMAIN old |-> IF patch[f] # <<>> THEN patch[f][1] ELSE old[f]]

\* path.join(dir, 'forbidden_area')
ForbiddenArea(dir) ==
  IF dir = "/w1" THEN "/w1/forbidden_area"
  ELSE IF dir = "/w2" THEN "/w2/forbidden_area" ELSE "~/tmp/forbidden_area"

\* [...(this.prefs.extraDenyWrite || [])] plus the forbidden area that exists
extraDenyFor(dir) ==
  prefs.extraDenyWrite \cup (IF dir \in fsys THEN {ForbiddenArea(dir)} ELSE {})

\* the AgentContext initializeContext stores
initializeContext(workDir) ==
  [workingDirectory |-> workDir,
   sandboxConfig |-> createSandboxConfig(workDir, prefs.securityMode,
                       [prefs EXCEPT !.extraDenyWrite = extraDenyFor(workDir)]),
   securityMode |-> prefs.securityMode]

\* updateWorkingDirectory that keeps the extra deny entries of the old policy
updateWorkingDirectoryKeepDeny(ctx, newDirectory) ==
  [ctx EXCEPT !.workingDirectory = newDirectory,
              !.sandboxConfig = createSandboxConfig(newDirectory, prefs.securityMode,
                                  [prefs EXCEPT !.extraDenyWrite =
                                     extraDenyFor(newDirectory)
                                       \cup (ctx.sandboxConfig.denyWrite \ SecureDenyWrite)])]

\* updateWorkingDirectory that moves the directory and keeps the old policy
updateWorkingDirectoryKeepPolicy(ctx, newDirectory) ==
  [ctx EXCEPT !.workingDirectory = newDirectory]

\* the AgentContext after updateWorkingDirectory changed it in place
updateWorkingDirectory(ctx, newDirectory) ==
  [ctx EXCEPT !.workingDirectory = newDirectory,
              !.sandboxConfig = createSandboxConfig(newDirectory, prefs.securityMode,
                                  [prefs EXCEPT !.extraDenyWrite = extraDenyFor(newDirectory)])]

\* a rebuild that replaces the policy and leaves context.securityMode alone
rebuildPolicyKeepMode(ctx, p) ==
  [ctx EXCEPT !.sandboxConfig = createSandboxConfig(ctx.workingDirectory, p.securityMode, p)]

\* the AgentContext after updatePrefs / resetPrefs rebuilt its policy in place
rebuildPolicy(ctx, p) ==
  [ctx EXCEPT !.sandboxConfig = createSandboxConfig(ctx.workingDirectory, p.securityMode, p),
              !.securityMode = p.securityMode]

CtxOp(op, dir) == [op |-> op, dir |-> dir]

Tick ==
  /\ now < MaxClock
  /\ now' = now + 1
  /\ UNCHANGED <<disk, calls, context, manager>>
  /\ UNCHANGED <<agentVars, ctxVars, lightVars>>

\* ContextManager.initializeContext
InitializeContext(workDir) ==
  /\ context' = << initializeContext(workDir) >>
  /\ lastCtxOp' = CtxOp("initializeContext", workDir)
  /\ UNCHANGED <<now, disk, calls, manager, prefs, fsys, own, exec>>
  /\ UNCHANGED <<agentVars, lightVars>>

\* ContextManager.updateWorkingDirectory; it throws when there is no context
UpdateWorkingDirectory(newDirectory) ==
  /\ context # <<>>
  /\ context' = << updateWorkingDirectory(context[1], newDirectory) >>
  /\ lastCtxOp' = CtxOp("updateWorkingDirectory", newDirectory)
  /\ UNCHANGED <<now, disk, calls, manager, prefs, fsys, own, exec>>
  /\ UNCHANGED <<agentVars, lightVars>>

\* ContextManager.updatePrefs, also reached through getInstance(prefs)
UpdatePrefs(patch) ==
  /\ prefs' = Spread(prefs, patch)
  /\ context' = IF context = <<>> THEN context ELSE << rebuildPolicy(context[1], prefs') >>
  /\ lastCtxOp' = CtxOp("updatePrefs", "")
  /\ UNCHANGED <<now, disk, calls, manager, fsys, own, exec>>
  /\ UNCHANGED <<agentVars, lightVars>>

\* ContextManager.resetPrefs
ResetPrefs ==
  /\ prefs' = DEFAULT_PREFS
  /\ context' = IF context = <<>> THEN context ELSE << rebuildPolicy(context[1], prefs') >>
  /\ lastCtxOp' = CtxOp("resetPrefs", "")
  /\ UNCHANGED <<now, disk, calls, manager, fsys, own, exec>>
  /\ UNCHANGED <<agentVars, lightVars>>

\* ContextManager.reset
ContextReset ==
  /\ context' = <<>>
  /\ lastCtxOp' = CtxOp("reset", "")
  /\ UNCHANGED <<now, disk, calls, manager, prefs, fsys, own, exec>>
  /\ UNCHANGED <<agentVars, lightVars>>

\* the environment creates or removes <dir>/forbidden_area
ToggleForbiddenArea(dir) ==
  /\ fsys' = IF dir \in fsys THEN fsys \ {dir} ELSE fsys \cup {dir}
  /\ UNCHANGED <<now, disk, calls, context, manager, prefs, lastCtxOp, own, exec>>
  /\ UNCHANGED <<agentVars, lightVars>>

\* runCode(codeBlock) up to `await SandboxManager.initialize(...)`
Start(c, lang) ==
  /\ calls[c].pc = "new"
  /\ \A d \in CallIds : d < c => calls[d].pc # "new"
  /\ LET begun == [calls[c] EXCEPT !.lang = lang, !.path = tempScriptPath(lang, now)]
         after == IF context = <<>>
                    THEN CatchBlock(begun, NoContextMsg, "context")
                    ELSE [begun EXCEPT !.ctx = context,
                                       !.initWith = <<context[1].sandboxConfig>>,
                                       !.pc = "init"]
     IN  /\ calls' = [calls EXCEPT ![c] = after]
         /\ disk' = DiskAfter(calls[c], after, disk)
  /\ UNCHANGED <<now, context, manager>>
  /\ UNCHANGED <<agentVars, ctxVars, lightVars>>

\* from the resolution of initialize to `await SandboxManager.wrapWithSandbox(...)`
InitDone(c, initOk, writeOk) ==
  /\ calls[c].pc = "init"
  /\ LET call == calls[c]
         command == IF call.lang = "bash" THEN [prog |-> "inline", arg |-> NoPath]
                    ELSE [prog |-> IF call.lang = "javascript" THEN "node" ELSE "python3",
                          arg |-> call.path]
         after == IF ~initOk THEN CatchBlock(call, InitFailMsg, "init")
                  ELSE IF call.lang # "bash" /\ ~writeOk
                    THEN CatchBlock(call, WriteFailMsg, "write")
                  ELSE [call EXCEPT !.cmd = <<command>>, !.pc = "wrap"]
         written == IF initOk /\ writeOk /\ call.lang # "bash"
                      THEN WriteFile(disk, call.path, c) ELSE disk
     IN  /\ calls' = [calls EXCEPT ![c] = after]
         /\ disk' = DiskAfter(call, after, written)
         /\ manager' = IF initOk THEN call.initWith ELSE manager
  /\ UNCHANGED <<now, context>>
  /\ UNCHANGED <<agentVars, ctxVars, lightVars>>

\* spawn of the command as it was before wrapping
spawnUnwrapped(call, wrappedCommand, d) ==
  [call EXCEPT !.spawned = << [command |-> call.cmd[1],
                               cwd |-> call.ctx[1].workingDirectory] >>,
               !.ran = IF call.path = NoPath THEN 0 ELSE OwnerAt(d, call.path),
               !.proc = "running",
               !.timer = "armed",
               !.pc = "running"]

\* spawn(wrappedCommand, { shell: true, cwd: context.workingDirectory, ... }) and
\* the arming of the timer; the child reads its script from the temp directory
spawn(call, wrappedCommand, d) ==
  [call EXCEPT !.spawned = << [command |-> wrappedCommand,
                               cwd |-> call.ctx[1].workingDirectory] >>,
               !.ran = IF call.path = NoPath THEN 0 ELSE OwnerAt(d, call.path),
               !.proc = "running",
               !.timer = "armed",
               !.pc = "running"]

\* from the resolution of wrapWithSandbox to the spawn
WrapDone(c, wrapOk) ==
  /\ calls[c].pc = "wrap"
  /\ LET call == calls[c]
         wrappedCommand == [command |-> call.cmd[1], policy |-> manager]
         after == IF ~wrapOk THEN CatchBlock(call, WrapFailMsg, "wrap")
                  ELSE spawn([call EXCEPT !.wrapped = <<wrappedCommand>>], wrappedCommand, disk)
     IN  /\ calls' = [calls EXCEPT ![c] = after]
         /\ disk' = DiskAfter(call, after, disk)
  /\ UNCHANGED <<now, context, manager>>
  /\ UNCHANGED <<agentVars, ctxVars, lightVars>>

\* childProcess.stdout.on('data') / childProcess.stderr.on('data')
Data(c, stream) ==
  /\ calls[c].proc \in {"running", "killed"}
  /\ calls[c].emitted = "none"
  /\ calls' = [calls EXCEPT ![c] =
       IF stream = "stdout"
         THEN [@ EXCEPT !.emitted = stream, !.stdout = @ \o <<W("4")>>,
                        !.logs = Append(@, StdoutLine(<<W("4")>>))]
         ELSE [@ EXCEPT !.emitted = stream,
                        !.logs = Append(@, StderrLine(<<W("denied")>>))]]
  /\ UNCHANGED <<now, disk, context, manager>>
  /\ UNCHANGED <<agentVars, ctxVars, lightVars>>

CloseCodes(proc) == IF proc = "running" THEN {"0", "1"} ELSE {"null", "1"}

\* childProcess.on('close')
Close(c, code) ==
  /\ calls[c].proc \in {"running", "killed"}
  /\ code \in CloseCodes(calls[c].proc)
  /\ LET call == [calls[c] EXCEPT !.proc = "closed",
                                  !.first = IF @ = <<>> THEN <<"close", code>> ELSE @]
         after == IF code = "0" THEN resolve(call)
                  ELSE reject(call, ExitMsg(call.lang, code), "exit")
     IN  /\ calls' = [calls EXCEPT ![c] = after]
         /\ disk' = DiskAfter(calls[c], after, disk)
  /\ UNCHANGED <<now, context, manager>>
  /\ UNCHANGED <<agentVars, ctxVars, lightVars>>

\* the setTimeout callback: childProcess.kill(); reject(timed out)
Timeout(c) ==
  /\ calls[c].timer = "armed"
  /\ LET call == [calls[c] EXCEPT !.timer = "fired",
                                  !.proc = IF @ = "running" THEN "killed" ELSE @,
                                  !.first = IF @ = <<>> THEN <<"timer">> ELSE @]
         after == reject(call, TimeoutMsg(call.lang), "timeout")
     IN  /\ calls' = [calls EXCEPT ![c] = after]
         /\ disk' = DiskAfter(calls[c], after, disk)
  /\ UNCHANGED <<now, context, manager>>
  /\ UNCHANGED <<agentVars, ctxVars, lightVars>>

SandboxInit ==
  /\ now = 0
  /\ disk = {}
  /\ calls = [c \in CallIds |-> NewCall]
  /\ context = <<>>
  /\ manager = <<>>

Sessions == 1..NSessions
NoExec == [pc |-> "idle", ctx |-> <<>>, live |-> FALSE, initWith |-> <<>>,
           cwd |-> "", expect |-> <<>>]

ContextInit ==
  /\ prefs = DEFAULT_PREFS
  /\ fsys = {}
  /\ lastCtxOp = CtxOp("none", "")
  /\ own = [s \in Sessions |-> <<>>]
  /\ exec = [s \in Sessions |-> NoExec]

\* what the in-place change of the manager's context does to an execution
\* that holds the same AgentContext object
Aliased(e, ctx) == IF e.live THEN [e EXCEPT !.ctx = <<ctx>>] ELSE e
\* the manager's context was replaced by a new object
Detached(e) == [e EXCEPT !.live = FALSE]

\* a session sets up its context: ContextManager.getInstance().initializeContext
SessionInit(s, workDir) ==
  /\ exec[s].pc # "looked"
  /\ context' = << initializeContext(workDir) >>
  /\ own' = [own EXCEPT ![s] = << [dir |-> workDir, mode |-> prefs.securityMode] >>]
  /\ exec' = [t \in Sessions |-> Detached(exec[t])]
  /\ lastCtxOp' = CtxOp("initializeContext", workDir)
  /\ UNCHANGED <<now, disk, calls, manager, prefs, fsys>>
  /\ UNCHANGED <<agentVars, lightVars>>

\* a session moves its working directory: updateWorkingDirectory
SessionChdir(s, newDirectory) ==
  /\ own[s] # <<>>
  /\ exec[s].pc # "looked"
  /\ context # <<>>
  /\ context' = << updateWorkingDirectory(context[1], newDirectory) >>
  /\ own' = [own EXCEPT ![s] = << [@[1] EXCEPT !.dir = newDirectory] >>]
  /\ exec' = [t \in Sessions |-> Aliased(exec[t], context'[1])]
  /\ lastCtxOp' = CtxOp("updateWorkingDirectory", newDirectory)
  /\ UNCHANGED <<now, disk, calls, manager, prefs, fsys>>
  /\ UNCHANGED <<agentVars, lightVars>>

\* a session chooses its security mode: ContextManager.getInstance({ securityMode })
SessionMode(s, mode) ==
  /\ own[s] # <<>>
  /\ exec[s].pc # "looked"
  /\ prefs' = Spread(prefs, [NoPatch EXCEPT !.securityMode = <<mode>>])
  /\ context' = IF context = <<>> THEN context ELSE << rebuildPolicy(context[1], prefs') >>
  /\ own' = [own EXCEPT ![s] = << [@[1] EXCEPT !.mode = mode] >>]
  /\ exec' = IF context = <<>> THEN exec
              ELSE [t \in Sessions |-> Aliased(exec[t], context'[1])]
  /\ lastCtxOp' = CtxOp("updatePrefs", "")
  /\ UNCHANGED <<now, disk, calls, manager, fsys>>
  /\ UNCHANGED <<agentVars, lightVars>>

\* runBashCode of a session up to `await SandboxManager.initialize(...)`
Lookup(s) ==
  /\ own[s] # <<>>
  /\ exec[s].pc = "idle"
  /\ context # <<>>
  /\ exec' = [exec EXCEPT ![s] =
       [pc |-> "looked", ctx |-> context, live |-> TRUE,
        initWith |-> << context[1].sandboxConfig >>, cwd |-> "", expect |-> own[s]]]
  /\ UNCHANGED <<now, disk, calls, context, manager, prefs, fsys, lastCtxOp, own>>
  /\ UNCHANGED <<agentVars, lightVars>>

\* runBashCode of a session from there to spawn(..., { cwd: context.workingDirectory })
Spawn(s) ==
  /\ exec[s].pc = "looked"
  /\ exec' = [exec EXCEPT ![s] =
       [@ EXCEPT !.pc = "spawned", !.cwd = exec[s].ctx[1].workingDirectory,
                 !.ctx = <<>>, !.live = FALSE]]
  /\ UNCHANGED <<now, disk, calls, context, manager, prefs, fsys, lastCtxOp, own>>
  /\ UNCHANGED <<agentVars, lightVars>>

(***************************************************************************)
(* LightAgent (core/light-agent.ts): the parser of model text.  A JSON      *)
(* fragment of a text is written token by token: the delimiter, the braces *)
(* and one token per "key": value pair.                                    *)
(***************************************************************************)
Delim == [k |-> "delim", lang |-> "", v |-> ""]            \* '<|interpreter|>'
OpenBrace == [k |-> "open", lang |-> "", v |-> ""]         \* '{'
CloseBrace == [k |-> "close", lang |-> "", v |-> ""]       \* '}'
Field(key, val) == [k |-> "field", lang |-> key, v |-> val]       \* '"key": "val"'
NumField(key, val) == [k |-> "nfield", lang |-> key, v |-> val]   \* '"key": 5'
OpenField(key, val) == [k |-> "ufield", lang |-> key, v |-> val]  \* '"key": "val' with no closing quote

\* String.prototype.trim on the code of a call
TrimCode(c) == IF c \in {"", " "} THEN "" ELSE c
\* String.prototype.toLowerCase on a language name
LowerCase(l) == CASE l = "Bash" -> "bash" [] l = "JS" -> "js" [] l = "Python" -> "python"
                  [] OTHER -> l

\* index of the first '}' at or after from, 0 when there is none
FirstClose(s, from) ==
  LET js == {j \in from..Len(s) : s[j].k = "close"}
  IN  IF js = {} THEN 0 ELSE CHOOSE j \in js : \A h \in js : j <= h
\* index of the first token at or after from that holds a '"'
FirstQuote(s, from) ==
  LET js == {j \in from..Len(s) : s[j].k \in {"field", "nfield", "ufield"}}
  IN  IF js = {} THEN 0 ELSE CHOOSE j \in js : \A h \in js : j <= h

\* /<\|interpreter\|>\s*\n?\s*\{[\s\S]*?\}/ anchored at token i: the index of
\* the last token of the match, 0 when there is no match at i
interpEnd(s, i) ==
  IF s[i].k = "delim" /\ i + 1 <= Len(s) /\ s[i + 1].k = "open"
    THEN FirstClose(s, i + 2) ELSE 0
\* /\{\s*"code"\s*:\s*"[\s\S]*?"[\s\S]*?\}/ anchored at token i
bareEnd(s, i) ==
  IF s[i].k = "open" /\ i + 1 <= Len(s) /\ s[i + 1].lang = "code"
       /\ s[i + 1].k \in {"field", "ufield"}
    THEN IF s[i + 1].k = "field" THEN FirstClose(s, i + 2)
         ELSE LET q == FirstQuote(s, i + 2)
              IN  IF q = 0 THEN 0 ELSE FirstClose(s, q + 1)
    ELSE 0

RECURSIVE interpMatches(_, _)
\* content.match(/.../g): the matches from token i on, leftmost first, each
\* search resuming after the previous match; jsonStr is the match without
\* its delimiter
interpMatches(s, i) ==
  IF i > Len(s) THEN <<>>
  ELSE IF interpEnd(s, i) = 0 THEN interpMatches(s, i + 1)
  ELSE <<SubSeq(s, i + 1, interpEnd(s, i))>> \o interpMatches(s, interpEnd(s, i) + 1)

RECURSIVE bareJsonMatches(_, _)
bareJsonMatches(s, i) ==
  IF i > Len(s) THEN <<>>
  ELSE IF bareEnd(s, i) = 0 THEN bareJsonMatches(s, i + 1)
  ELSE <<SubSeq(s, i, bareEnd(s, i))>> \o bareJsonMatches(s, bareEnd(s, i) + 1)

\* JSON.parse(t) returns an object
ValidJson(t) ==
  /\ Len(t) >= 2 /\ t[1].k = "open" /\ t[Len(t)].k = "close"
  /\ \A j \in 2..(Len(t) - 1) : t[j].k \in {"field", "nfield"}
\* data[key]: the last pair with that key
Get(t, key) ==
  LET js == {j \in 2..(Len(t) - 1) : t[j].lang = key}
  IN  IF js = {} THEN [k |-> "undefined", lang |-> key, v |-> ""]
      ELSE t[CHOOSE j \in js : \A h \in js : h <= j]
\* x || fallback, x.trim() and x.toLowerCase() throw a TypeError on a number
\* that is not 0
Throws(x) == x.k = "nfield" /\ x.v # "0"

\* the body of the try block for one JSON match; the catch block is empty
fromJson(t) ==
  IF ~ValidJson(t) THEN <<>>
  ELSE LET c == Get(t, "code")
           l == Get(t, "language")
           code == IF c.k = "field" THEN TrimCode(c.v) ELSE ""
           lang == IF l.k = "field" /\ l.v # "" THEN LowerCase(l.v) ELSE "bash"
           resolved == IF lang = "js" THEN "javascript"
                       ELSE IF lang \in {"python", "javascript", "bash"} THEN lang
                       ELSE "bash"
       IN  IF Throws(c) \/ code = "" \/ Throws(l) THEN <<>>
           ELSE << [type |-> resolved, language |-> resolved, code |-> code] >>

codeBlockCalls(content) ==
  LET blocks == SelectSeq(content, LAMBDA f :
                  f.k = "block" /\ NormTag(f.lang) \in {"bash", "javascript", "python", "js"})
      lang(f) == IF NormTag(f.lang) = "js" THEN "javascript" ELSE NormTag(f.lang)
  IN  [i \in 1..Len(blocks) |->
         [type |-> lang(blocks[i]), language |-> lang(blocks[i]),
          code |-> TrimCode(blocks[i].v)]]

parseToolCallsFromContent(content) ==
  LET im == interpMatches(content, 1)
      bm == bareJsonMatches(content, 1)
  IN  codeBlockCalls(content)
        \o Concat([i \in 1..Len(im) |-> fromJson(im[i])])
        \o Concat([i \in 1..Len(bm) |-> fromJson(bm[i])])

\* pieces of model text
PlainWord == <<W("x")>>
BashBlock == <<Block("Bash", "ls")>>
JsBlock == <<Block("js", "j")>>
RubyBlock == <<Block("ruby", "r")>>
InputTag == <<UI("q")>>
InterpOk == <<Delim, OpenBrace, Field("code", "p"), Field("language", "Python"), CloseBrace>>
BareOk == <<OpenBrace, Field("code", "ls"), CloseBrace>>
InterpNoClose == <<Delim, OpenBrace, Field("code", "a")>>
BareNoQuote == <<OpenBrace, OpenField("code", "a")>>
InterpNumCode == <<Delim, OpenBrace, NumField("code", "5"), CloseBrace>>
BareNumLang == <<OpenBrace, Field("code", "ls"), NumField("language", "5"), CloseBrace>>
BareEmptyCode == <<OpenBrace, Field("code", " "), CloseBrace>>
Pieces == {PlainWord, BashBlock, JsBlock, RubyBlock, InputTag, InterpOk, BareOk,
           InterpNoClose, BareNoQuote, InterpNumCode, BareNumLang, BareEmptyCode}
Texts == UNION {[1..n -> Pieces] : n \in 1..MaxPieces}

NoParse == [text |-> <<>>, agent |-> <<>>, light |-> <<>>]

\* both parsers applied to one model text
Parse(text) ==
  /\ px' = [text |-> text,
            agent |-> parseToolCalls(Concat(text), 0),
            light |-> parseToolCallsFromContent(Concat(text))]
  /\ UNCHANGED <<agentVars, sandboxVars, ctxVars, la, swarm, registry>>

(***************************************************************************)
(* LightAgent: constructor, run, runCLI (core/light-agent.ts) and chatRaw  *)
(* (llm.ts)                                                                *)
(***************************************************************************)
DefaultMaxRetry == 10
FailedMsg == <<W("Failed to generate a valid response.")>>
NoContent == <<W("No content available")>>
RunErrorPrefix == "LLM Error:"          \* `LLM Error: ${error.message}` in run
FollowErrorPrefix == "Error:"           \* `Error: ${error.message}` in makeLLMCallWithHistoryRaw
NotConfigured == "LLM-weipeizhi:"       \* 'LLM未配置: '
UseTools == "shiyong-gongju:"           \* '使用工具： '
ToolReply == "gongju-xiangying:"        \* '工具响应内容：'
NextStep == "qing-geichu-xiayibu"       \* '请给出下一步输出'
TypeErrorMsg == <<W("Cannot read properties of undefined (reading 'name')")>>
BadJsonMsg == <<W("Unexpected token in JSON")>>

\* one entry of message.tool_calls; fn is empty when the entry has no
\* function member
Fn(name, args) == [fn |-> << [name |-> name, arguments |-> args] >>]
Args(language, code) == [ok |-> TRUE, language |-> language, code |-> code]
BadArgs == [ok |-> FALSE, language |-> "", code |-> ""]
NoFunction == [fn |-> <<>>]

\* what the endpoint does with one chatRaw request
Json(content, tool_calls) ==
  [kind |-> "json", content |-> content, tool_calls |-> tool_calls, error |-> <<>>]
Rejected(error) == [kind |-> "throw", content |-> <<>>, tool_calls |-> <<>>, error |-> error]
NotOk(text) == [kind |-> "http", content |-> text, tool_calls |-> <<>>, error |-> <<>>]

LightContents == {<<W("answer")>>, <<>>, <<Block("bash", "ls")>>}
NativeCalls == {<<Fn("bash", Args("bash", "ls"))>>, <<Fn("bash", BadArgs)>>, <<NoFunction>>}
\* tool_calls come back only when tools were sent with the request
RawOutcomes(tools) ==
  {Json(c, <<>>) : c \in LightContents}
    \cup {Rejected(FetchErrorMsg), NotOk(<<W("500")>>)}
    \cup (IF tools # {} THEN {Json(<<>>, tc) : tc \in NativeCalls} ELSE {})

Response(content, tool_calls) == [content |-> content, tool_calls |-> tool_calls]

\* chatRaw: the response it resolves with, or the error it rejects with
chatRaw(hasEnvKey, lastContent, res) ==
  IF ~hasEnvKey
    THEN [threw |-> FALSE, error |-> <<>>,
          response |-> Response(<<W(NotConfigured)>> \o lastContent, <<>>)]
  ELSE IF res.kind = "throw"
    THEN [threw |-> TRUE, error |-> res.error, response |-> Response(<<>>, <<>>)]
  ELSE IF res.kind = "http"
    THEN [threw |-> FALSE, error |-> <<>>,
          response |-> Response(<<W(LLMError)>> \o res.content, <<>>)]
  ELSE [threw |-> FALSE, error |-> <<>>, response |-> Response(res.content, res.tool_calls)]

\* the tools of code-execution-tools.ts: executeCode resolves with a text
CodeTools == {"bash", "javascript", "python"}
ToolOutput == <<W("Output:"), W("4")>>

\* one iteration of the loop of executeToolCalls; the entry has a function
toolResult(tools, f) ==
  IF ~f.arguments.ok THEN <<W("Error executing tool:")>> \o BadJsonMsg
  ELSE IF f.name \in tools THEN ToolOutput
  ELSE <<W("Error: Tool"), W(f.name), W("not found")>>

\* executeToolCalls: the joined results, or the rejection when an entry has
\* no function member (its catch block reads toolCall.function.name as well)
executeToolCalls(tools, toolCalls) ==
  IF \E i \in DOMAIN toolCalls : toolCalls[i].fn = <<>>
    THEN [threw |-> TRUE, combined |-> <<>>]
    ELSE [threw |-> FALSE,
          combined |-> Concat([i \in DOMAIN toolCalls |-> toolResult(tools, toolCalls[i].fn[1])])]

\* JSON.stringify(toolCalls.map(tc => tc.function))
toolStr(toolCalls) ==
  Concat([i \in DOMAIN toolCalls |->
            <<W(toolCalls[i].fn[1].name), W(toolCalls[i].fn[1].arguments.code)>>])

\* parsed.map(p => ({ function: { name: p.language, arguments: ... } }))
synthetic(parsed) ==
  [i \in DOMAIN parsed |-> Fn(parsed[i].language, Args(parsed[i].language, parsed[i].code))]

NoAgent ==
  [inst |-> "none", cfg |-> <<>>, tools |-> {}, pc |-> "idle", cli |-> FALSE,
   maxRetry |-> 0, attempt |-> 0, llmCalls |-> 0, rounds |-> 0, runs |-> 0,
   history |-> <<>>, query |-> <<>>, ret |-> <<>>, reply |-> <<>>, plain |-> FALSE,
   fails |-> {}, tasks |-> NewState,
   prior |-> <<>>, sent |-> <<>>, gotPlain |-> FALSE]

LightInit == px = NoParse /\ la = NoAgent

\* this.api_key = config.api_key || LLM_API_KEY || OPENAI_API_KEY || ''
apiKey(cfg) ==
  IF cfg.api_key # "" THEN cfg.api_key
  ELSE IF cfg.LLM_API_KEY # "" THEN cfg.LLM_API_KEY
  ELSE cfg.OPENAI_API_KEY

\* a constructor without the validation of the key
constructorNoCheck(cfg, tools) ==
  [NoAgent EXCEPT !.inst = "made", !.cfg = <<cfg>>, !.tools = tools]

\* new LightAgent(config): the instance, or the throw
constructor(cfg, tools) ==
  IF apiKey(cfg) = ""
    THEN [NoAgent EXCEPT !.inst = "threw", !.cfg = <<cfg>>]
    ELSE [NoAgent EXCEPT !.inst = "made", !.cfg = <<cfg>>, !.tools = tools]

Configs == [api_key : {"", "k1"}, LLM_API_KEY : {"", "k2"}, OPENAI_API_KEY : {"", "k3"}]

Construct(cfg, tools) ==
  /\ la.inst # "made"
  /\ la' = constructor(cfg, tools)
  /\ UNCHANGED <<agentVars, sandboxVars, ctxVars, px, swarm, registry>>

\* updateActivity(taskDescription)
updateActivity(tasks, id, taskDescription) ==
  [currentTask |-> << [id |-> id, description |-> taskDescription] >>,
   completedTasks |-> IF tasks.currentTask # <<>>
                        THEN Append(tasks.completedTasks, tasks.currentTask[1])
                        ELSE tasks.completedTasks]

\* the system message run builds from the agent's name, instructions and role
SystemPrompt == Msg("system", <<W("system-prompt")>>)

\* the messages of the first request of a run
firstMessages(history, query) == <<SystemPrompt>> \o history \o <<Msg("user", query)>>

\* the messages of a follow-up request: this.history.map(...)
followUpMessages(a, history) == history

\* run(query, { max_retry, history }) up to its first `await chatRaw(...)`;
\* runCLI calls updateActivity first and passes no options
LightRun(query, max_retry, cli, history) ==
  /\ la.inst = "made"
  /\ la.pc \in {"idle", "done", "rejected"}
  /\ la.runs < MaxRuns
  /\ cli => (max_retry = DefaultMaxRetry /\ history = <<>>)
  /\ la' = [la EXCEPT !.pc = "first", !.cli = cli, !.maxRetry = max_retry,
                      !.attempt = 0, !.llmCalls = 1, !.rounds = 0, !.runs = @ + 1,
                      !.history = history, !.query = query, !.ret = <<>>, !.reply = <<>>,
                      !.plain = FALSE, !.prior = history, !.gotPlain = FALSE,
                      !.sent = firstMessages(history, query),
                      !.tasks = IF cli THEN updateActivity(@, la.runs + 1, query) ELSE @]
  /\ UNCHANGED <<agentVars, sandboxVars, ctxVars, px, swarm, registry>>

\* run resolves with text
resolved(a, text) == [a EXCEPT !.pc = "done", !.ret = text]
\* run rejects; runCLI catches and resolves with `Error: ${error.message}`
rejected(a, error) ==
  [a EXCEPT !.pc = "rejected", !.ret = IF a.cli THEN <<W("Error:")>> \o error ELSE <<>>]

\* a tool round: the two history messages and the follow-up chatRaw call
toolRound(a, toolCalls, native) ==
  LET done == executeToolCalls(a.tools, toolCalls)
      history == a.history \o
                       << Msg("assistant", <<W(UseTools)>> \o toolStr(toolCalls)),
                          Msg("user", <<W(ToolReply)>> \o done.combined
                                        \o (IF native THEN <<W(NextStep)>> ELSE <<>>)) >>
  IN  IF done.threw THEN rejected(a, TypeErrorMsg)
      ELSE [a EXCEPT !.history = history,
                     !.sent = followUpMessages(a, history),
                     !.rounds = @ + 1,
                     !.llmCalls = @ + 1,
                     !.pc = "follow"]

\* the loop of processNonStreamResponse from its test `attempt < maxRetry`
\* to the next await or return
examine(a, response) ==
  IF ~(a.attempt < a.maxRetry) THEN resolved(a, FailedMsg)
  ELSE IF response.tool_calls # <<>> THEN toolRound(a, response.tool_calls, TRUE)
  ELSE LET content == IF response.content = <<>> THEN NoContent ELSE response.content
           parsed == parseToolCallsFromContent(content)
           seen == [a EXCEPT !.reply = <<response.content>>]
       IN  IF parsed # <<>> THEN toolRound(seen, synthetic(parsed), FALSE)
           ELSE resolved([seen EXCEPT !.history = Append(@, Msg("assistant", content)),
                                      !.plain = TRUE],
                         content)

\* the resolution of the chatRaw call in flight, and what run does with it
LightReply(res) ==
  /\ la.pc \in {"first", "follow"}
  /\ LET first == la.pc = "first"
         lastContent == IF first THEN la.query
                        ELSE la.history[Len(la.history)].content
         r == chatRaw(la.cfg[1].LLM_API_KEY # "", lastContent, res)
         prefix == IF first THEN RunErrorPrefix ELSE FollowErrorPrefix
         response == IF r.threw THEN Response(<<W(prefix)>> \o r.error, <<>>)
                     ELSE r.response
         real == la.cfg[1].LLM_API_KEY # "" /\ res.kind = "json"
         noCalls == /\ response.tool_calls = <<>>
                    /\ parseToolCallsFromContent(IF response.content = <<>> THEN NoContent
                                                 ELSE response.content) = <<>>
         a == [la EXCEPT !.attempt = IF first THEN 0 ELSE @ + 1,
                         !.gotPlain = @ \/ (real /\ noCalls),
                         !.fails = IF r.threw THEN @ \cup {prefix}
                                   ELSE IF la.cfg[1].LLM_API_KEY # "" /\ res.kind = "http"
                                     THEN @ \cup {LLMError}
                                   ELSE @]
         after == examine(a, response)
     IN  /\ after.llmCalls <= LightCap
         /\ la' = after
  /\ UNCHANGED <<agentVars, sandboxVars, ctxVars, px, swarm, registry>>

(***************************************************************************)
(* LightSwarm: a Map from agent names to agents                            *)
(***************************************************************************)
\* the agents at hand: 1 and 2 carry the same name
SwarmAgents == 1..4
nameOf(agent) == IF agent \in {1, 2} THEN "alpha" ELSE "beta"
\* the names passed to run and removeAgent; no agent is called "ghost"
SwarmNames == {"alpha", "beta", "ghost"}

\* new LightSwarm(): an empty map (0: no entry under the name)
NoSwarm ==
  [agents |-> [n \in SwarmNames |-> 0],
   removed |-> {},
   last |-> [op |-> "none", name |-> "", agent |-> 0, out |-> "none"]]

\* registerAgent(...agents): an agent whose name is taken is skipped
RECURSIVE registerAgent(_, _)
registerAgent(agents, list) ==
  IF list = <<>> THEN agents
  ELSE LET agent == Head(list)
           after == IF agents[nameOf(agent)] # 0 THEN agents
                    ELSE [agents EXCEPT ![nameOf(agent)] = agent]
       IN  registerAgent(after, Tail(list))

\* removeAgent that reports the removal and keeps the entry
removeAgentKeepEntry(agents, name) ==
  [agents |-> agents, removed |-> agents[name] # 0]

\* removeAgent(name): this.agents.delete(name)
removeAgent(agents, name) ==
  [agents |-> [agents EXCEPT ![name] = 0], removed |-> agents[name] # 0]

\* LightSwarm.run(agentName, query): the rejection, or the agent whose run
\* is returned
swarmRun(agents, agentName) ==
  IF agents[agentName] = 0
    THEN [out |-> "rejected", agent |-> 0]       \* `Agent '${agentName}' not found.`
    ELSE [out |-> "ran", agent |-> agents[agentName]]

RegisterAgent(list) ==
  /\ swarm' = [swarm EXCEPT !.agents = registerAgent(swarm.agents, list),
                            !.last = [op |-> "register", name |-> nameOf(list[Len(list)]),
                                      agent |-> list[Len(list)], out |-> "none"]]
  /\ UNCHANGED <<agentVars, sandboxVars, ctxVars, px, la, registry>>

RemoveAgent(name) ==
  /\ LET r == removeAgent(swarm.agents, name)
     IN  swarm' = [agents |-> r.agents,
                   removed |-> IF r.removed THEN swarm.removed \cup {name} ELSE swarm.removed,
                   last |-> [op |-> "remove", name |-> name, agent |-> 0,
                             out |-> IF r.removed THEN "true" ELSE "false"]]
  /\ UNCHANGED <<agentVars, sandboxVars, ctxVars, px, la, registry>>

SwarmRun(agentName) ==
  /\ LET r == swarmRun(swarm.agents, agentName)
     IN  swarm' = [swarm EXCEPT !.last = [op |-> "run", name |-> agentName,
                                         agent |-> r.agent, out |-> r.out]]
  /\ UNCHANGED <<agentVars, sandboxVars, ctxVars, px, la, registry>>

(***************************************************************************)
(* ToolRegistry: two Maps keyed by tool name and a list of schemas         *)
(***************************************************************************)
\* a function given to registerTool: with tool_info (a tool name and the
\* version of its description) or without
Tool(name, version) == [hasInfo |-> TRUE, tool_name |-> name, version |-> version]
PlainFunction == [hasInfo |-> FALSE, tool_name |-> "", version |-> 0]
RegistryTools == {Tool("bash", 1), Tool("bash", 2), Tool("python", 1), PlainFunction}
ToolNames == {"bash", "python"}

\* new ToolRegistry(): two empty maps (kept as one: they are set together) and
\* an empty schema list
NoRegistry ==
  [functionMappings |-> [n \in ToolNames |-> 0],
   openaiFunctionSchemas |-> <<>>,
   calls |-> 0,
   last |-> "none"]

\* registerTool that replaces the schema of a name already registered
registerToolReplacing(reg, func) ==
  IF ~func.hasInfo THEN [reg EXCEPT !.last = "false", !.calls = @ + 1]
  ELSE [functionMappings |-> [reg.functionMappings EXCEPT ![func.tool_name] = func.version],
        openaiFunctionSchemas |->
          Append(SelectSeq(reg.openaiFunctionSchemas,
                           LAMBDA x : x.name # func.tool_name),
                 [name |-> func.tool_name, version |-> func.version]),
        calls |-> reg.calls + 1,
        last |-> "true"]

\* registerTool(func)
registerTool(reg, func) ==
  IF ~func.hasInfo THEN [reg EXCEPT !.last = "false", !.calls = @ + 1]
  ELSE [functionMappings |-> [reg.functionMappings EXCEPT ![func.tool_name] = func.version],
        openaiFunctionSchemas |->
          Append(reg.openaiFunctionSchemas,
                 [name |-> func.tool_name, version |-> func.version]),
        calls |-> reg.calls + 1,
        last |-> "true"]

\* getTools(): a copy of the schema list
getTools(reg) == reg.openaiFunctionSchemas
\* getToolNames(): the keys of functionMappings
getToolNames(reg) == {n \in ToolNames : reg.functionMappings[n] # 0}

RegisterTool(func) ==
  /\ registry.calls < MaxRegs
  /\ registry' = registerTool(registry, func)
  /\ UNCHANGED <<agentVars, sandboxVars, ctxVars, px, la, swarm>>

SwarmInit == swarm = NoSwarm /\ registry = NoRegistry

Init == AgentInit /\ SandboxInit /\ ContextInit /\ LightInit /\ SwarmInit

Next ==
  \/ \E userPrompt \in (IF state.currentTask # <<>> THEN Answers ELSE Prompts) :
       Run(userPrompt)
  \/ \E res \in ChatOutcomes : Turn(chat(res))
  \/ Reset

\* the Agent task loop
Spec == Init /\ [][Next]_vars

SandboxNext ==
  \/ Tick
  \/ \E workDir \in Dirs : InitializeContext(workDir)
  \/ \E c \in CallIds, lang \in CodeTypes : Start(c, lang)
  \/ \E c \in CallIds, initOk \in BOOLEAN, writeOk \in BOOLEAN : InitDone(c, initOk, writeOk)
  \/ \E c \in CallIds, wrapOk \in BOOLEAN : WrapDone(c, wrapOk)
  \/ \E c \in CallIds, stream \in {"stdout", "stderr"} : Data(c, stream)
  \/ \E c \in CallIds, code \in {"0", "1", "null"} : Close(c, code)
  \/ \E c \in CallIds : Timeout(c)

\* a reply with one block of each language
ThreeBlocks == <<Block("bash", "ls"), Block("javascript", "j"), Block("python", "p")>>

ToolLoopNext ==
  \/ \E r \in Replies \cup {ThreeBlocks} : ExecBegin(parseToolCalls(r, 0))
  \/ \E o \in Outcomes \cup {NotRun} : ToolResolved(o)
  \/ PauseDone

\* the tool loop of one turn, one step per await
ToolLoopSpec == Init /\ [][ToolLoopNext]_vars

\* concurrent run*Code calls against one ContextManager and one temp directory
SandboxSpec == Init /\ [][SandboxNext]_vars

\* the Partial<UserPreferences> values passed to updatePrefs
Patches ==
  {[NoPatch EXCEPT !.securityMode = <<m>>] : m \in Modes}
    \cup {[NoPatch EXCEPT !.extraDenyWrite = <<{ForbiddenArea("/w1")}>>]}
    \cup {[NoPatch EXCEPT !.extraAllowWrite = <<{"~/.npm"}>>]}
    \cup {[NoPatch EXCEPT !.extraDenyRead = <<{"/w1/secret"}>>]}

\* the working directories of ContextSpec: the two projects and one of the
\* developer cache directories
CtxDirs == Dirs \cup {"~/tmp"}

ContextNext ==
  \/ \E workDir \in CtxDirs : InitializeContext(workDir)
  \/ \E newDirectory \in CtxDirs : UpdateWorkingDirectory(newDirectory)
  \/ \E patch \in Patches : UpdatePrefs(patch)
  \/ ResetPrefs
  \/ ContextReset
  \/ \E dir \in Dirs : ToggleForbiddenArea(dir)

\* one ContextManager whose preferences, working directory and disk change
ContextSpec == Init /\ [][ContextNext]_vars

\* the security modes the sessions choose between
SessionModes == {"strict", "moderate"}

SessionNext ==
  \/ \E s \in Sessions, workDir \in Dirs : SessionInit(s, workDir)
  \/ \E s \in Sessions, newDirectory \in Dirs : SessionChdir(s, newDirectory)
  \/ \E s \in Sessions, mode \in SessionModes : SessionMode(s, mode)
  \/ \E s \in Sessions : Lookup(s)
  \/ \E s \in Sessions : Spawn(s)

\* sessions of one process, each setting up its context and running its code
SessionSpec == Init /\ [][SessionNext]_vars

\* the agents registered with one call: one agent or two
AgentLists == {<<a>> : a \in SwarmAgents} \cup {<<a, b>> : a \in SwarmAgents, b \in SwarmAgents}

SwarmNext ==
  \/ \E list \in AgentLists : RegisterAgent(list)
  \/ \E name \in SwarmNames : RemoveAgent(name)
  \/ \E agentName \in SwarmNames : SwarmRun(agentName)

\* one LightSwarm under any sequence of registerAgent, removeAgent and run
SwarmSpec == Init /\ [][SwarmNext]_vars

RegistryNext == \E func \in RegistryTools : RegisterTool(func)

\* one ToolRegistry under any sequence of registerTool calls
RegistrySpec == Init /\ [][RegistryNext]_vars

ParseNext == \E text \in Texts : Parse(text)

\* the parsers applied to one text after another
ParseSpec == Init /\ [][ParseNext]_vars

\* the history option of run: absent, or one earlier exchange
Histories == {<<>>, <<Msg("user", <<W("earlier")>>), Msg("assistant", <<W("answer")>>)>>}

LightNext ==
  \/ \E cfg \in Configs, tools \in {{}, CodeTools} : Construct(cfg, tools)
  \/ \E query \in {PlainPrompt}, max_retry \in 0..MaxRetry, history \in Histories :
       LightRun(query, max_retry, FALSE, history)
  \/ \E query \in {PlainPrompt} : LightRun(query, DefaultMaxRetry, TRUE, <<>>)
  \/ \E res \in RawOutcomes(la.tools) : LightReply(res)

\* one LightAgent: its construction and its non-streaming runs
LightSpec == Init /\ [][LightNext]_vars

(***************************************************************************)
(* Claims                                                                  *)
(***************************************************************************)
CurrentTask == state.currentTask[1]
HasCurrentTask == state.currentTask # <<>>
TurnTaken == llmCalls' = llmCalls + 1
ErrorLines(logs) == {i \in DOMAIN logs : Includes(logs[i], "Error:")}
IsExitCode(end) == end \notin {"0", "timeout", "none"}

\* C1: a Task whose turns keep producing tool calls without being judged
\* complete stops once the maximum turn count is exceeded: no chat() call is
\* pending for a Task that has already used more than MaxTurns turns.
C1_StopsAtMaxTurns == pc = "llm" => turns <= MaxTurns

\* C2: a tool call whose sandboxed code exited with a non-zero code gets a
\* ToolResult with success = false, an error that contains the exit code, and
\* the captured logs.
C2_NonZeroExitFails ==
  \A i \in DOMAIN last.results :
    IsExitCode(last.outs[i].end) =>
      /\ ~last.results[i].success
      /\ Includes(last.results[i].error, last.outs[i].end)
      /\ last.results[i].logs # <<>>

\* C3: a Task is never marked Completed on a turn in which an executed tool
\* call failed (non-zero exit or timeout).
C3_NoCompletionOnFailedTurn ==
  last.verdict = "complete" => \A i \in DOMAIN last.outs : ~Failing(last.outs[i])

C5_DistinctTempPaths ==
  \A c1, c2 \in CallIds :
    (/\ c1 # c2
     /\ calls[c1].pc \in {"init", "wrap", "running"}
     /\ calls[c2].pc \in {"init", "wrap", "running"}
     /\ calls[c1].path # NoPath)
      => calls[c1].path # calls[c2].path

\* C6: every spawned subprocess runs the command returned by wrapWithSandbox
\* for the call's own command, after initialize was called with the policy of
\* the context looked up in the same call; a call that failed at the context
\* lookup, the initialisation, the file write or the wrapping spawned nothing.
C6_OnlyWrappedCommandsSpawned ==
  \A c \in CallIds :
    /\ calls[c].spawned # <<>> =>
         /\ calls[c].wrapped # <<>>
         /\ calls[c].spawned[1].command = calls[c].wrapped[1]
         /\ calls[c].wrapped[1].command = calls[c].cmd[1]
         /\ calls[c].wrapped[1].policy # <<>>
         /\ calls[c].ctx # <<>>
         /\ calls[c].initWith = <<calls[c].ctx[1].sandboxConfig>>
    /\ calls[c].failedAt \in {"context", "init", "write", "wrap"} =>
         calls[c].spawned = <<>> /\ calls[c].proc = "none"

\* one call runs its wrapped command while another failed at the wrapping
C6_Witness ==
  \E c1, c2 \in CallIds :
    /\ calls[c1].spawned # <<>>
    /\ calls[c2].failedAt = "wrap"

\* C7: a call resolves once, with the outcome of whichever of the timer and
\* the close event happened first: after the timer the result is the timeout
\* and stays so when the killed process closes; after a close the result is
\* that of the exit code and stays so when the timer fires.
C7_FirstEventDecides ==
  \A c \in CallIds :
    calls[c].first # <<>> =>
      /\ calls[c].pc = "done"
      /\ calls[c].result # <<>>
      /\ calls[c].first = <<"timer">> =>
           /\ calls[c].settled = "rejected"
           /\ calls[c].failedAt = "timeout"
           /\ ~calls[c].result[1].hasOutput
           /\ Cardinality(ErrorLines(calls[c].logs)) = 1
           /\ \A i \in ErrorLines(calls[c].logs) :
                calls[c].logs[i] = <<W("Error:")>> \o TimeoutMsg(calls[c].lang)
      /\ calls[c].first = <<"close", "0">> =>
           /\ calls[c].settled = "resolved"
           /\ calls[c].result[1].hasOutput
           /\ ErrorLines(calls[c].logs) = {}
      /\ calls[c].first = <<"close", "1">> =>
           /\ calls[c].settled = "rejected"
           /\ calls[c].failedAt = "exit"
           /\ Cardinality(ErrorLines(calls[c].logs)) = 1
           /\ \A i \in ErrorLines(calls[c].logs) :
                calls[c].logs[i] = <<W("Error:")>> \o ExitMsg(calls[c].lang, "1")

\* the timer fired first and the killed process has closed afterwards
C7_Witness ==
  \E c \in CallIds :
    /\ calls[c].first = <<"timer">>
    /\ calls[c].proc = "closed"

FirstInput(toolCalls) == SelectSeq(toolCalls, LAMBDA t : t.type = UserInput)[1]
HasInput(toolCalls) == \E i \in DOMAIN toolCalls : toolCalls[i].type = UserInput

\* C8 as stated: a turn whose reply contains a user_input call returns with
\* the Task WaitingForInput, requiresInput = true and the call's prompt as
\* the returned text and as inputPrompt; no chat() call is pending.
C8_HaltsWithPrompt ==
  [][(TurnTaken /\ HasInput(last'.toolCalls)) =>
       /\ pc' = "idle"
       /\ state'.currentTask # <<>>
       /\ state'.currentTask[1].status = WaitingForInput
       /\ ret'.requiresInput
       /\ ret'.text = FirstInput(last'.toolCalls).input
       /\ ret'.inputPrompt = FirstInput(last'.toolCalls).input]_vars

\* C8 amended: the returned text is the prompt of the first parsed user_input
\* call when that prompt is not empty after trimming, and the fixed text
\* '需要用户输入' when it is; inputPrompt is the trimmed prompt in both cases.
C8_HaltsWithPromptOrFallback ==
  [][(TurnTaken /\ HasInput(last'.toolCalls)) =>
       /\ pc' = "idle"
       /\ state'.currentTask # <<>>
       /\ state'.currentTask[1].status = WaitingForInput
       /\ ret'.requiresInput
       /\ ret'.text = IF FirstInput(last'.toolCalls).input # <<>>
                        THEN FirstInput(last'.toolCalls).input ELSE NeedInput
       /\ ret'.inputPrompt = FirstInput(last'.toolCalls).input]_vars

\* a run halted on a reply with a code block and a user_input call
C8_Witness ==
  /\ pc = "idle"
  /\ last.verdict = "waiting"
  /\ Len(last.toolCalls) = 2
  /\ HasCurrentTask /\ CurrentTask.status = WaitingForInput
  /\ ret.requiresInput /\ ret.text = <<W("q")>>

\* C9: run called while the Task is WaitingForInput keeps the same Task,
\* puts it back to InProgress, appends the new input to the history and
\* goes on to a new chat() call.
C9_ResumeSameTask ==
  [][(pc = "idle" /\ pc' = "llm" /\ HasCurrentTask /\ CurrentTask.status = WaitingForInput) =>
       /\ state'.currentTask # <<>>
       /\ state'.currentTask[1].id = CurrentTask.id
       /\ state'.currentTask[1].status = InProgress
       /\ state'.completedTasks = state.completedTasks
       /\ Len(memory') > Len(memory)
       /\ SubSeq(memory', 1, Len(memory)) = memory
       /\ memory'[Len(memory) + 1].role = "user"
       /\ memory'[Len(memory) + 1].content \in Answers]_vars

\* a halted Task has been resumed and its next chat() call is pending
C9_Witness ==
  /\ pc = "llm"
  /\ last.verdict = "waiting"
  /\ HasCurrentTask /\ CurrentTask.status = InProgress
  /\ CurrentTask.id = last.task

\* C10: on a turn whose tool calls all succeeded and none of which was a
\* user_input call, a model reply that contains the completion marker makes
\* the oracle answer complete, whatever the task description.
C10_MarkerInReplyCompletes ==
  (/\ last.verdict \in {"complete", "continue"}
   /\ \A i \in DOMAIN last.results : last.results[i].success
   /\ ~HasInput(last.toolCalls)
   /\ Includes(last.reply, Marker))
    => last.verdict = "complete"

IsErrorReply(reply) == reply # <<>> /\ reply[1] = W(LLMError)
CompletedIds == {state.completedTasks[i].id : i \in DOMAIN state.completedTasks}

\* C11: a turn whose chat() call failed is a failed turn: the Task of that
\* turn is not marked Completed because of the error reply.
C11_ErrorReplyKeepsTaskOpen == IsErrorReply(last.reply) => last.task \notin CompletedIds

\* C13: right after initializeContext(dir) or updateWorkingDirectory(dir) the
\* policy's denyWrite holds <dir>/forbidden_area exactly when that directory
\* exists on disk (unless the preferences list it), and holds the
\* forbidden_area of no other working directory unless the preferences list it.
C13_ForbiddenAreaCheckedAfresh ==
  [][(lastCtxOp'.op \in {"initializeContext", "updateWorkingDirectory"} /\ fsys' = fsys) =>
       /\ context' # <<>>
       /\ context'[1].workingDirectory = lastCtxOp'.dir
       /\ ForbiddenArea(lastCtxOp'.dir) \notin prefs.extraDenyWrite =>
            (ForbiddenArea(lastCtxOp'.dir) \in context'[1].sandboxConfig.denyWrite
               <=> lastCtxOp'.dir \in fsys)
       /\ \A d \in Dirs \ {lastCtxOp'.dir} :
            ForbiddenArea(d) \in context'[1].sandboxConfig.denyWrite =>
              ForbiddenArea(d) \in prefs.extraDenyWrite]_vars

\* the working directory was moved to /w2, both forbidden areas exist, and the
\* policy denies only that of /w2
C13_Witness ==
  /\ lastCtxOp = CtxOp("updateWorkingDirectory", "/w2")
  /\ fsys = Dirs
  /\ prefs.extraDenyWrite = {}
  /\ context # <<>>
  /\ ForbiddenArea("/w2") \in context[1].sandboxConfig.denyWrite
  /\ ForbiddenArea("/w1") \notin context[1].sandboxConfig.denyWrite

\* C12: the code of a session runs in the working directory the session set
\* up and under a policy built for that directory and for the security mode
\* the session chose, whatever the other sessions did to their contexts.
C12_SessionsIsolated ==
  \A s \in Sessions :
    exec[s].pc = "spawned" =>
      /\ exec[s].cwd = exec[s].expect[1].dir
      /\ exec[s].expect[1].dir \in exec[s].initWith[1].allowWrite
      /\ (DevCachePaths \subseteq exec[s].initWith[1].allowWrite)
           <=> exec[s].expect[1].mode # "strict"

\* C14: the tool calls of a turn run one after another in parsed order: at
\* most one execution is in flight, call i + 1 is in flight only when the
\* results of calls 1..i are there, and result k is that of call k.
C14_OneCallAtATime ==
  /\ Cardinality(loop.inflight) <= 1
  /\ \A j \in loop.inflight : Len(loop.results) = j - 1
  /\ \A k \in DOMAIN loop.results : loop.results[k].toolCallId = loop.toolCalls[k].id
  /\ loop.pc = "done" => Len(loop.results) = Len(loop.toolCalls)

\* the last of three calls is in flight and the first two have their results
C14_Witness ==
  /\ loop.pc = "await"
  /\ Len(loop.toolCalls) = 3
  /\ loop.inflight = {3}
  /\ Len(loop.results) = 2

TasksOf(st) == {st.currentTask[i] : i \in DOMAIN st.currentTask}
                 \cup {st.completedTasks[i] : i \in DOMAIN st.completedTasks}
Edges ==
  {<<Pending, InProgress>>, <<InProgress, WaitingForInput>>, <<InProgress, Completed>>,
   <<InProgress, Failed>>, <<WaitingForInput, InProgress>>}

\* C15: every change of the status of a Task follows one of the edges
\* Pending->InProgress, InProgress->WaitingForInput, InProgress->Completed,
\* InProgress->Failed, WaitingForInput->InProgress; nothing leaves Completed
\* or Failed.
C15_StatusEdges ==
  [][\A t \in TasksOf(state), u \in TasksOf(state') :
       (u.id = t.id /\ u.status # t.status) => <<t.status, u.status>> \in Edges]_vars

\* a Task that was halted for input and resumed has been completed
C15_Witness ==
  \E i \in DOMAIN state.completedTasks :
    /\ state.completedTasks[i].status = Completed
    /\ HasInput(state.completedTasks[i].toolCalls)

\* C16: when run returns, a Task that reached Completed or Failed is in
\* completedTasks and currentTask is cleared; completedTasks holds only
\* terminal Tasks and currentTask is no terminal Task.
C16_TerminalTasksMoved ==
  [][(TurnTaken /\ pc' = "idle") =>
       /\ \A i \in DOMAIN state'.completedTasks :
            state'.completedTasks[i].status \in {Completed, Failed}
       /\ \A i \in DOMAIN state'.currentTask :
            state'.currentTask[i].status \notin {Completed, Failed}
       /\ last'.verdict \in {"complete", "no_tools"} =>
            /\ state'.currentTask = <<>>
            /\ state'.completedTasks # <<>>
            /\ state'.completedTasks[Len(state'.completedTasks)].id = last'.task]_vars

\* run returned from a turn that judged the Task complete after its tools ran
C16_Witness ==
  /\ pc = "idle"
  /\ last.verdict = "complete"
  /\ state.currentTask = <<>>
  /\ \E i \in DOMAIN state.completedTasks :
       state.completedTasks[i].id = last.task /\ state.completedTasks[i].currentStep > 0

\* C17: the results of a Task are parallel to its tool calls: as many, and
\* result i carries the id of call i.
C17_ResultsParallel ==
  \A t \in TasksOf(state) :
    /\ Len(t.results) = Len(t.toolCalls)
    /\ \A i \in DOMAIN t.results : t.results[i].toolCallId = t.toolCalls[i].id

\* run returned with a Task that ran a code call, was halted and was resumed
C17_Witness ==
  /\ pc = "idle"
  /\ \E t \in TasksOf(state) :
       /\ Len(t.toolCalls) = 3
       /\ t.toolCalls[1].type = UserInput
       /\ t.toolCalls[2].type \in CodeTypes
       /\ t.toolCalls[3].type = UserInput
       /\ t.results[3].output \in Answers

\* C18: without a completion marker, a turn of a Task whose description
\* matches the multi-step pattern is not judged complete, whatever the tools
\* printed.
C18_MultiStepWaitsForMarker ==
  \A t \in TasksOf(state) :
    (/\ t.id = last.task
     /\ last.verdict = "complete"
     /\ isMultiStepTask(ToLowerCase(t.description)))
      => \/ Includes(last.reply, Marker)
         \/ Includes(formatToolResults(last.results), Marker)

\* C19: the user-input rule of the oracle looks at the calls of the latest
\* turn only: a turn without a user_input call that the other rules judge
\* complete is judged complete, also when an earlier turn of the Task asked
\* for input.
C19_InputRuleLatestTurnOnly ==
  (/\ pc = "llm"
   /\ last.verdict = "continue"
   /\ HasCurrentTask /\ CurrentTask.id = last.task
   /\ ~HasInput(last.toolCalls))
    => ~isTaskComplete([CurrentTask EXCEPT !.toolCalls = last.toolCalls],
                       last.results, memory)

Recognised(f) ==
  \/ f.k = "ui" /\ f.v # ""
  \/ f.k = "block" /\ NormTag(f.lang) \in CodeTypes
KindOf(f) == IF f.k = "ui" THEN UserInput ELSE NormTag(f.lang)
AppearanceOrder(reply) ==
  [i \in 1..Len(SelectSeq(reply, Recognised)) |-> KindOf(SelectSeq(reply, Recognised)[i])]

\* C20: the parsed tool calls of a reply are in the order in which their
\* fragments appear in the text, user_input markers and fenced blocks alike.
C20_ParsedInTextOrder ==
  [i \in DOMAIN last.toolCalls |-> last.toolCalls[i].type] = AppearanceOrder(last.reply)

\* the calls the fenced blocks of a text stand for: one per block tagged bash,
\* javascript, js or python, in text order, js read as javascript
FencedCalls(content) ==
  LET blocks == SelectSeq(content, LAMBDA f :
                  f.k = "block" /\ NormTag(f.lang) \in {"bash", "javascript", "js", "python"})
  IN  [i \in 1..Len(blocks) |->
         <<IF NormTag(blocks[i].lang) = "js" THEN "javascript" ELSE NormTag(blocks[i].lang),
           blocks[i].v>>]
AgentCodeCalls ==
  LET cs == SelectSeq(px.agent, LAMBDA c : c.type # UserInput)
  IN  [i \in 1..Len(cs) |-> <<cs[i].type, cs[i].input[1].v>>]
JsonCallsOf(content) ==
  parseToolCallsFromContent(SelectSeq(content, LAMBDA f : f.k # "block"))
LightFencedOk ==
  LET e == FencedCalls(Concat(px.text))
  IN  /\ Len(px.light) = Len(e) + Len(JsonCallsOf(Concat(px.text)))
      /\ \A i \in 1..Len(e) : <<px.light[i].type, px.light[i].code>> = e[i]

\* C21: in Agent.parseToolCalls and in LightAgent.parseToolCallsFromContent
\* every fenced block tagged bash, javascript, js or python yields one call of
\* the matching kind (js as javascript), and a block with another tag none.
C21_FencedBlocksRecognised ==
  /\ AgentCodeCalls = FencedCalls(Concat(px.text))
  /\ LightFencedOk

\* a JSON fragment that is not a complete object with a non-empty string code
\* and, if it names a language, a string language
IsJsonPiece(p) == p[1].k \in {"delim", "open"}
WellFormedPiece(p) ==
  LET obj == IF p[1].k = "delim" THEN Tail(p) ELSE p
  IN  /\ ValidJson(obj)
      /\ \A j \in 2..(Len(obj) - 1) : obj[j].k = "field"
      /\ Get(obj, "code").k = "field" /\ TrimCode(Get(obj, "code").v) # ""
MalformedPiece(p) == IsJsonPiece(p) /\ ~WellFormedPiece(p)
Without(text, k) == [i \in 1..(Len(text) - 1) |-> IF i < k THEN text[i] ELSE text[i + 1]]

\* C22: a malformed or partial JSON fragment yields no tool call and leaves
\* the calls of the rest of the text as they are: the parser returns what it
\* returns for the text without that fragment.
C22_MalformedFragmentDropped ==
  \A k \in DOMAIN px.text :
    MalformedPiece(px.text[k])
      => px.light = parseToolCallsFromContent(Concat(Without(px.text, k)))

\* C23: a user_input call is not executed: no process runs for it, and its
\* result is success with the call's payload as output and the call's id as
\* toolCallId, whatever a sandbox would have done.
C23_UserInputNotExecuted ==
  \A i \in DOMAIN last.results :
    last.toolCalls[i].type = UserInput
      => /\ last.outs[i] = NotRun
         /\ last.results[i].success
         /\ last.results[i].output = last.toolCalls[i].input
         /\ last.results[i].toolCallId = last.toolCalls[i].id
         /\ \A o \in Outcomes : execute(last.toolCalls[i], o) = last.results[i]

\* a turn that executed a user_input call and a code call
C23_Witness ==
  \E i, j \in DOMAIN last.results :
    /\ last.toolCalls[i].type \in CodeTypes
    /\ last.toolCalls[j].type = UserInput
    /\ last.results[j].output = <<W("q")>>

\* C24: a reply without a tool call ends the run of LightAgent: the reply is
\* the last history message, as an assistant message, run returns the reply
\* text unchanged, and the Task of the run is among the completed tasks.
C24_PlainReplyEndsRun ==
  (la.pc = "done" /\ la.plain)
    => /\ la.history # <<>>
       /\ la.history[Len(la.history)] = Msg("assistant", la.reply[1])
       /\ la.ret = la.reply[1]
       /\ la.cli => \E i \in DOMAIN la.tasks.completedTasks :
                      la.tasks.completedTasks[i].id = la.runs

\* the message of the failure a finished call ran into
FailureMsg(call) ==
  CASE call.failedAt = "context" -> NoContextMsg
    [] call.failedAt = "init" -> InitFailMsg
    [] call.failedAt = "write" -> WriteFailMsg
    [] call.failedAt = "wrap" -> WrapFailMsg
    [] call.failedAt = "timeout" -> TimeoutMsg(call.lang)
    [] OTHER -> <<W(LangName(call.lang)), W("execution failed with exit code")>>

\* C25: however a code execution fails (no context, sandbox initialisation,
\* wrapping, non-zero exit, timeout), runCode resolves with a result, and the
\* tool-result message built from it for the history holds the failure message.
C25_FailuresAreResults ==
  \A c \in CallIds :
    calls[c].pc = "done"
      => /\ Len(calls[c].result) = 1
         /\ calls[c].failedAt # "none"
              => LET tr == toToolResult(createCodeTool(c, calls[c].lang, <<W("x")>>),
                                        calls[c].result[1])
                     text == formatToolResults(<<tr>>)
                     msg == FailureMsg(calls[c])
                 IN  /\ Includes(text, "Error:")
                     /\ \A i \in DOMAIN msg : Includes(text, msg[i].v)

\* one call timed out and another ended with a non-zero exit code
C25_Witness ==
  \E c, d \in CallIds :
    /\ calls[c].pc = "done" /\ calls[c].failedAt = "timeout"
    /\ calls[d].pc = "done" /\ calls[d].failedAt = "exit"

\* C26: the synthetic messages that stand for failed LLM calls of one
\* LightAgent all start with the same prefix, whichever call failed.
C26_OneErrorPrefix == \A p, q \in la.fails : p = q

\* the counting part of C27: at most max_retry tool rounds and max_retry + 1
\* LLM calls in a run, and the fixed text when no examined reply was plain
RunWithinBudget ==
  /\ la.rounds <= la.maxRetry
  /\ la.llmCalls <= la.maxRetry + 1
  /\ (la.pc = "done" /\ ~la.plain) => la.ret = FailedMsg

\* C27: a non-streaming run makes at most max_retry tool rounds and
\* max_retry + 1 LLM calls, never rejects, and resolves with the fixed text
\* when every reply it examined held tool calls.
C27_RunNeverRejects == RunWithinBudget /\ la.pc # "rejected"

NoKey(cfg) == cfg.api_key = "" /\ cfg.LLM_API_KEY = "" /\ cfg.OPENAI_API_KEY = ""

C29_TempAndWorkDirWritable ==
  context # <<>> =>
    {TmpDir, context[1].workingDirectory} \subseteq context[1].sandboxConfig.allowWrite

\* strict mode, the working directory moved from /w1 to /w2: the policy allows
\* /w2 and no longer /w1
C29_Witness ==
  /\ lastCtxOp = CtxOp("updateWorkingDirectory", "/w2")
  /\ prefs.securityMode = "strict"
  /\ context # <<>>
  /\ context[1].workingDirectory = "/w2"
  /\ "/w2" \in context[1].sandboxConfig.allowWrite
  /\ "/w1" \notin context[1].sandboxConfig.allowWrite

CoreDenyWrite ==
  {"/etc", "/bin", "/usr/bin", "/boot", "/proc", "/sys", "~/.ssh", "~/.aws", "~/.kube"}
CredentialPatterns == {"~/.ssh/id_rsa*", "~/.aws/credentials", "~/.kube/config"}

\* C31: every policy of the ContextManager, in every mode and under every
\* combination of overrides, denies writing the core system directories and
\* every extraDenyWrite entry, and denies reading the credential patterns and
\* every extraDenyRead entry, plus /etc/passwd in strict mode.
C31_BuiltInDeniesKept ==
  context # <<>> =>
    LET fs == context[1].sandboxConfig IN
    /\ CoreDenyWrite \cup prefs.extraDenyWrite \subseteq fs.denyWrite
    /\ CredentialPatterns \cup prefs.extraDenyRead \subseteq fs.denyRead
    /\ prefs.securityMode = "strict" => "/etc/passwd" \in fs.denyRead

\* a strict policy built with all three override lists set
C31_Witness ==
  /\ context # <<>>
  /\ prefs.securityMode = "strict"
  /\ prefs.extraDenyWrite # {} /\ prefs.extraDenyRead # {} /\ prefs.extraAllowWrite # {}
  /\ prefs.extraDenyWrite \subseteq context[1].sandboxConfig.denyWrite
  /\ "/etc" \in context[1].sandboxConfig.denyWrite

\* C32: the context of a ContextManager carries the mode of the manager's
\* preferences: right after initializeContext, and after every later
\* updatePrefs, resetPrefs and updateWorkingDirectory; the policy of the
\* context is the one of that mode.
C32_ContextModeIsPrefsMode ==
  context # <<>> =>
    /\ context[1].securityMode = prefs.securityMode
    /\ context[1].securityMode \in Modes
    /\ "/etc/passwd" \in context[1].sandboxConfig.denyRead
         <=> context[1].securityMode = "strict"

\* updatePrefs moved an initialised context to inquire mode
C32_Witness ==
  /\ lastCtxOp = CtxOp("updatePrefs", "")
  /\ context # <<>>
  /\ prefs.securityMode = "inquire"
  /\ context[1].securityMode = "inquire"

\* C34: when updatePrefs (also through getInstance(prefs)) or resetPrefs has
\* rebuilt the policy of an initialised context and
\* <workingDirectory>/forbidden_area exists on disk, the rebuilt policy's
\* denyWrite holds it.
C34_ForbiddenAreaKeptOnRebuild ==
  [][(/\ lastCtxOp'.op \in {"updatePrefs", "resetPrefs"}
      /\ fsys' = fsys
      /\ context' # <<>>
      /\ context'[1].workingDirectory \in fsys')
       => ForbiddenArea(context'[1].workingDirectory)
            \in context'[1].sandboxConfig.denyWrite]_vars

\* C38: a spawned command runs in a directory the policy handed to
\* SandboxManager.initialize was built for, also when updateWorkingDirectory
\* or updatePrefs ran while the execution was suspended at an await.
C38_CwdAndPolicyBelongTogether ==
  \A s \in Sessions :
    exec[s].pc = "spawned" => exec[s].cwd \in exec[s].initWith[1].allowWrite

\* C33: LightSwarm.run(name) rejects exactly when no agent is registered
\* under the name and otherwise runs the agent registered under it; after
\* removeAgent(name) no agent is registered under the name, after
\* registerAgent(agent) one is registered under the agent's name.
C33_RunRejectsIffUnregistered ==
  /\ swarm.last.op = "run" =>
       /\ swarm.last.out = "rejected" <=> swarm.agents[swarm.last.name] = 0
       /\ swarm.last.out = "ran" =>
            /\ swarm.last.agent = swarm.agents[swarm.last.name]
            /\ nameOf(swarm.last.agent) = swarm.last.name
  /\ swarm.last.op = "remove" => swarm.agents[swarm.last.name] = 0
  /\ swarm.last.op = "register" => swarm.agents[swarm.last.name] # 0
  /\ \A n \in SwarmNames : swarm.agents[n] # 0 => nameOf(swarm.agents[n]) = n

\* a run under a name that was registered and removed is rejected
C33_Witness ==
  /\ swarm.last.op = "run"
  /\ swarm.last.name = "alpha"
  /\ "alpha" \in swarm.removed
  /\ swarm.last.out = "rejected"
  /\ swarm.agents["beta"] # 0

\* a registerTool call that returned false left the maps and the list alone
RejectedChangesNothing ==
  [][(registry'.calls = registry.calls + 1 /\ registry'.last = "false") =>
       /\ registry'.functionMappings = registry.functionMappings
       /\ registry'.openaiFunctionSchemas = registry.openaiFunctionSchemas]_vars

\* C40: getTools() holds one schema per registered tool name, also when a
\* name was registered more than once, and a function without tool_info is
\* rejected.
C40_OneSchemaPerName ==
  /\ Len(getTools(registry)) = Cardinality(getToolNames(registry))
  /\ \A i, j \in DOMAIN getTools(registry) :
       getTools(registry)[i].name = getTools(registry)[j].name => i = j
  /\ \A i \in DOMAIN getTools(registry) : getTools(registry)[i].name \in ToolNames

\* C35: every request of a run that is in flight, the first one and each
\* follow-up after a tool round, starts with the system prompt, holds the
\* history passed to the run and holds the user's message of the run.
C35_RequestsCarryContext ==
  la.pc \in {"first", "follow"} =>
    /\ la.sent # <<>>
    /\ la.sent[1] = SystemPrompt
    /\ \A i \in DOMAIN la.prior : \E j \in DOMAIN la.sent : la.sent[j] = la.prior[i]
    /\ \E j \in DOMAIN la.sent : la.sent[j] = Msg("user", la.query)

\* C37: run returns the fixed failure message only if every reply the LLM
\* gave during the run held tool calls.
C37_FailedOnlyAfterToolReplies ==
  (la.pc = "done" /\ la.ret = FailedMsg) => ~la.gotPlain

\* C36: in a turn whose reply holds a user_input call and code blocks, no
\* code call that stands after a successful user_input call in the batch has
\* been executed when the turn hands the question to the user.
C36_NothingRunsAfterUserInput ==
  \A i \in DOMAIN last.results :
    (last.toolCalls[i].type = UserInput /\ last.results[i].success)
      => \A j \in DOMAIN last.results :
           j > i => last.toolCalls[j].type \notin CodeTypes

\* the pieces of a text that are tool-call fragments for the LightAgent parser
CallFragments(text) ==
  {k \in DOMAIN text : text[k] \notin {PlainWord, InputTag, RubyBlock}}

\* C39: the LightAgent parser returns at most one tool call per tool-call
\* fragment of the text: the JSON object after <|interpreter|> is not
\* returned once more by the bare-JSON rule.
C39_OneCallPerFragment == Len(px.light) <= Cardinality(CallFragments(px.text))
====
